---- MODULE Spec2Model ----
(***************************************************************************)
(* A model of the critique/refine orchestration engine:                    *)
(*   core/model_router.py  call_model, call_gemini, initialize             *)
(*   core/loop.py          CritiqueRefineLoop                              *)
(*   core/roles.py         load_role_template                              *)
(*   utils/logger.py       Logger.log_run                                  *)
(* Python strings are TLA+ strings, Python dicts are functions over a      *)
(* finite set of string keys, None is the string None.                     *)
(***************************************************************************)
EXTENDS Integers, Sequences, FiniteSets, TLC

VARIABLES
    main_config,      \* utils/config.py _config, as get_config() returns it
    is_initialized,   \* model_router._is_initialized
    calls,            \* slot -> the call_model invocation running in that slot
    gemini_calls,     \* history: every call_gemini invocation, in order
    cfg,              \* the RunConfig, the loaded strategy and the arguments of run()
    missing,          \* the role template files that do not exist
    meta_answers,     \* the texts the meta-critic backend may answer with
    failures,         \* the ways a backend call may fail: "error", "timeout"
    pc,               \* where run() stands
    loop_i,           \* i of _run_critique_refine_loop's for loop
    brain_i,          \* i of _run_brainstormer_loop's for loop
    brainstormed_text, \* brainstormed_text of run(): the text that enters round 1
    current_text,     \* current_text of the loop that is running
    critique_text,    \* critique_text of the round
    roles_to_use,     \* roles_to_use of the round's _critique
    gather_exc,       \* the exception asyncio.gather has been given, if any
    finished,         \* history: the critic tasks of the round that returned, in order
    exc,              \* the exception run() is handling or has raised
    run_log,          \* self.run_log
    log_file,         \* the lines of the run log file
    steps,            \* history: the steps run() has entered, in order
    late,             \* history: texts critic calls returned after their round ended
    logger,           \* the Logger: redact, keys_to_redact, redaction_patterns
    caller_entry,     \* the structure the caller hands to the redactor or the logger
    redacted,         \* history: what the calls of _redact_dict_recursive returned
    before,           \* history: caller_entry as it was when the last call was made
    run_no,           \* the number of run() invocations on the loop instance so far
    other_run,        \* history: the run of a loop built with another stop_threshold
    clock,            \* datetime.now(), in whole seconds
    reviews,          \* the per-file reviews of SelfReviewTool.run and their run configurations
    log_dir           \* the run log files of the log directory, by path

reviewVars == <<clock, reviews, log_dir>>

routerVars == <<main_config, is_initialized, calls, gemini_calls>>

loopVars == <<cfg, missing, meta_answers, failures, pc, loop_i, brain_i, brainstormed_text, current_text, critique_text, roles_to_use, gather_exc, finished, exc, run_log, log_file, steps, late, logger, caller_entry, redacted, before, run_no, other_run, reviewVars>>

vars == <<main_config, is_initialized, calls, gemini_calls, cfg, missing, meta_answers, failures, pc, loop_i, brain_i, brainstormed_text, current_text, critique_text, roles_to_use, gather_exc, finished, exc, run_log, log_file, steps, late, logger, caller_entry, redacted, before, run_no, other_run, reviewVars>>

(***************************************************************************)
(* Python values                                                           *)
(***************************************************************************)
None == "None"

\* Python truthiness of an optional string: `not s`.
Falsy(s) == s \in {None, ""}

EmptyDict == [k \in {} |-> None]

\* d.get(k): None when the key is absent.
DictGet(d, k) == IF k \in DOMAIN d THEN d[k] ELSE None

\* {**a, **b}: the later layer wins.
Merge(a, b) == [k \in (DOMAIN a) \cup (DOMAIN b) |-> IF k \in DOMAIN b THEN b[k] ELSE a[k]]

\* s.startswith(p)
StartsWith(s, p) == Len(s) >= Len(p) /\ SubSeq(s, 1, Len(p)) = p

\* sub in s
Contains(s, sub) ==
    \E i \in 1..(Len(s) - Len(sub) + 1) : SubSeq(s, i, i + Len(sub) - 1) = sub

\* s.replace(old, new), old non-empty: every occurrence, left to right.
RECURSIVE Replace(_, _, _)
Replace(s, old, new) ==
    IF Len(s) < Len(old) THEN s
    ELSE IF SubSeq(s, 1, Len(old)) = old
         THEN new \o Replace(SubSeq(s, Len(old) + 1, Len(s)), old, new)
         ELSE SubSeq(s, 1, 1) \o Replace(SubSeq(s, 2, Len(s)), old, new)

\* An exception object: its class and str(e).
Exc(type, msg) == [type |-> type, msg |-> msg]
NoExc == Exc("", "")

(***************************************************************************)
(* utils/redact.py                                                         *)
(***************************************************************************)

\* A Python value of a log entry, with its type: a str, a dict (keys to values), a
\* list (a sequence of values), or a leaf of another type (as repr prints it).
Str(text) == [kind |-> "str", val |-> text]
Dict(items) == [kind |-> "dict", val |-> items]
List(items) == [kind |-> "list", val |-> items]
Other(text) == [kind |-> "other", val |-> text]

UpperChars == "ABCDEFGHIJKLMNOPQRSTUVWXYZ"
LowerChars == "abcdefghijklmnopqrstuvwxyz"

\* The place of a character in an alphabet, 0 when it is not in it.
CharIndex(ch, alphabet) ==
    IF \E n \in 1..Len(alphabet) : SubSeq(alphabet, n, n) = ch
    THEN CHOOSE n \in 1..Len(alphabet) : SubSeq(alphabet, n, n) = ch
    ELSE 0

\* str.upper() and the case folding of re.IGNORECASE, on ASCII text.
RECURSIVE Upper(_)
Upper(text) ==
    IF text = "" THEN ""
    ELSE LET ch == SubSeq(text, 1, 1)
             n == CharIndex(ch, LowerChars)
         IN  (IF n = 0 THEN ch ELSE SubSeq(UpperChars, n, n))
                 \o Upper(SubSeq(text, 2, Len(text)))

RECURSIVE Lower(_)
Lower(text) ==
    IF text = "" THEN ""
    ELSE LET ch == SubSeq(text, 1, 1)
             n == CharIndex(ch, UpperChars)
         IN  (IF n = 0 THEN ch ELSE SubSeq(LowerChars, n, n))
                 \o Lower(SubSeq(text, 2, Len(text)))

\* re.sub(pattern, replacement, text, flags=re.IGNORECASE) for a pattern that is a
\* non-empty literal and a replacement without group references: every match, left
\* to right, without overlap.
RECURSIVE ReSub(_, _, _)
ReSub(pattern, replacement, text) ==
    IF Len(text) < Len(pattern) THEN text
    ELSE IF Lower(SubSeq(text, 1, Len(pattern))) = Lower(pattern)
         THEN replacement
                  \o ReSub(pattern, replacement, SubSeq(text, Len(pattern) + 1, Len(text)))
         ELSE SubSeq(text, 1, 1)
                  \o ReSub(pattern, replacement, SubSeq(text, 2, Len(text)))

\* Lines 30-33: the text through every (pattern, replacement) rule, in order.
RECURSIVE ApplyPatterns(_, _)
ApplyPatterns(text, patterns) ==
    IF patterns = <<>> THEN text
    ELSE ApplyPatterns(ReSub(patterns[1][1], patterns[1][2], text),
                       SubSeq(patterns, 2, Len(patterns)))

\* Mutant: a mask that depends on the value it hides.
MaskedValueOfLength(key, value) ==
    "[REDACTED_" \o Upper(key) \o "_"
        \o (IF value.kind = "str" THEN ToString(Len(value.val)) ELSE "0") \o "]"

\* Line 22: what takes the place of the value of a sensitive key.
MaskedValue(key, value) == "[REDACTED_" \o Upper(key) \o "]"

RECURSIVE RedactDictRecursive(_, _, _)

\* Mutant: the sensitive keys are looked for in the outermost mapping only.
RedactBodyOutermostKeys(data, keys_to_redact, patterns) ==
    CASE data.kind = "dict" ->
            LET items == [key \in DOMAIN data.val |->
                            IF \E n \in 1..Len(keys_to_redact) : keys_to_redact[n] = key
                            THEN Str(MaskedValue(key, data.val[key]))
                            ELSE RedactDictRecursive(data.val[key], <<>>, patterns).ret]
            IN  [ret |-> Dict(items), obj |-> Dict(items)]
      [] data.kind = "list" ->
            LET rs == [n \in 1..Len(data.val) |->
                          RedactDictRecursive(data.val[n], keys_to_redact, patterns)]
            IN  [ret |-> List([n \in 1..Len(data.val) |-> rs[n].ret]),
                 obj |-> List([n \in 1..Len(data.val) |-> rs[n].arg])]
      [] data.kind = "str" ->
            [ret |-> Str(ApplyPatterns(data.val, patterns)), obj |-> data]
      [] OTHER -> [ret |-> data, obj |-> data]

\* Lines 19-35, run on the object data: ret is what is returned, obj is the object
\* afterwards. A dict is changed entry by entry and returned; a list is left as it
\* is (but for what the calls on its items do to them) and a new list is returned.
RedactBody(data, keys_to_redact, patterns) ==
    CASE data.kind = "dict" ->
            LET items == [key \in DOMAIN data.val |->
                            IF \E n \in 1..Len(keys_to_redact) : keys_to_redact[n] = key
                            THEN Str(MaskedValue(key, data.val[key]))
                            ELSE RedactDictRecursive(data.val[key], keys_to_redact,
                                                     patterns).ret]
            IN  [ret |-> Dict(items), obj |-> Dict(items)]
      [] data.kind = "list" ->
            LET rs == [n \in 1..Len(data.val) |->
                          RedactDictRecursive(data.val[n], keys_to_redact, patterns)]
            IN  [ret |-> List([n \in 1..Len(data.val) |-> rs[n].ret]),
                 obj |-> List([n \in 1..Len(data.val) |-> rs[n].arg])]
      [] data.kind = "str" ->
            [ret |-> Str(ApplyPatterns(data.val, patterns)), obj |-> data]
      [] OTHER -> [ret |-> data, obj |-> data]

\* Mutant: without the deep copy, the body runs on the caller's object.
RedactDictRecursiveInPlace(data, keys_to_redact, patterns) ==
    LET r == RedactBody(data, keys_to_redact, patterns)
    IN  [ret |-> r.ret, arg |-> r.obj]

\* _redact_dict_recursive(data, keys_to_redact, patterns): ret is what it returns,
\* arg is the caller's object afterwards. Line 17 rebinds data to a deep copy, an
\* object of its own that is equal to the caller's, and the body runs on the copy.
RedactDictRecursive(data, keys_to_redact, patterns) ==
    LET r == RedactBody(data, keys_to_redact, patterns)
    IN  [ret |-> r.ret, arg |-> data]

(***************************************************************************)
(* utils/logger.py                                                         *)
(***************************************************************************)

\* Logger(log_file_path, redact, keys_to_redact, redaction_patterns), lines 27-30.
Logger(redact_on, keys_to_redact, patterns) ==
    [redact |-> redact_on, keys_to_redact |-> keys_to_redact,
     redaction_patterns |-> patterns]

\* The Logger of a loop whose run configuration has redact_logs off.
PlainLogger == Logger(FALSE, <<>>, <<>>)

\* Logger.log_run(log_entry), lines 38-49: the line appended to the file (the entry
\* as json.dumps receives it) and the caller's entry afterwards.
LoggerLogRun(file, log_entry, self) ==
    LET r == RedactDictRecursive(log_entry, self.keys_to_redact, self.redaction_patterns)
    IN  IF self.redact
        THEN [log_file |-> Append(file, r.ret), log_entry |-> r.arg]
        ELSE [log_file |-> Append(file, log_entry), log_entry |-> log_entry]

(***************************************************************************)
(* core/model_router.py                                                    *)
(***************************************************************************)

\* Mutant: the per-call configuration as the lowest layer.
EffectiveConfigCallFirst(main, config) ==
    Merge(Merge(config, main.generation), main.models)

\* effective_config = {**default_generation_config, **_model_config, **(config or {})}
EffectiveConfig(main, config) ==
    Merge(Merge(main.generation, main.models), config)

\* Step 2 of call_model: the model to use, None or "" when nothing resolves.
ModelToUse(model_name, role, main, effective_config) ==
    IF ~Falsy(model_name) THEN model_name
    ELSE LET role_name == IF ~Falsy(role) THEN Replace(role, ".txt", "") ELSE ""
         IN  IF role_name # "" /\ role_name \in DOMAIN main.roles
             THEN DictGet(main.roles[role_name], "model")
             ELSE DictGet(effective_config, "default_model")

DryRunMarker(model) ==
    "DRY_RUN_RESPONSE: This is a mocked response for model " \o model \o "."

MockMarker(model) ==
    "MOCK_RESPONSE: This is a mocked response for model " \o model \o "."

\* The text the backend returns to the k-th call_gemini invocation: the backend is
\* opaque, each invocation gets a text of its own.
ResponseText(k) == "<out" \o ToString(k) \o ">"

\* Texts a meta-critic backend may answer with: JSON objects with and without a boolean
\* actionable field, JSON that is no object, and free text with and without the marker.
MetaResponses ==
    {"{\"actionable\": true}", "{\"actionable\": false}", "{\"actionable\": \"no\"}",
     "{\"reason\": \"vague\"}", "[true]", "ACTIONABLE", "NOT ACTIONABLE", "looks fine"}

\* The texts the backend may answer a call with.
BackendTexts(c) ==
    IF c.role = "meta_critic" THEN meta_answers ELSE {ResponseText(c.k)}

\* One call_gemini invocation as the history records it. sent: the request reached
\* the SDK (the router was initialized); outcome: pending, ok or fail; cause: what
\* the SDK raised when it failed; role and round: the call_model invocation it
\* belongs to and the round of the loop in which it was made.
GeminiCall(slot, hop, c, model, initialized) ==
    [slot |-> slot, hop |-> hop, prompt |-> c.prompt, model |-> model,
     system_prompt |-> c.system_prompt, config |-> c.effective_config,
     sent |-> initialized, outcome |-> IF initialized THEN "pending" ELSE "fail",
     cause |-> IF initialized THEN "" ELSE "error",
     role |-> c.role, round |-> loop_i + 1, text |-> ""]

IdleCall ==
    [st |-> "idle", prompt |-> "", model_name |-> None, system_prompt |-> None,
     config |-> EmptyDict, dry_run |-> FALSE, role |-> None,
     model_to_use |-> None, effective_config |-> EmptyDict,
     p |-> 0, k |-> 0, result |-> "", exc |-> NoExc]

\* The arguments of one call_model invocation.
CallArgs(prompt, model_name, system_prompt, config, dry_run, role) ==
    [prompt |-> prompt, model_name |-> model_name, system_prompt |-> system_prompt,
     config |-> config, dry_run |-> dry_run, role |-> role]

Returned(c, text) == [c EXCEPT !.st = "returned", !.result = text]
Raised(c, e) == [c EXCEPT !.st = "raised", !.exc = e]

\* The fallback model of a call, as step 6 reads it.
FallbackModel(c) == DictGet(c.effective_config, "fallback_model")

\* Mutant: the fallback is only looked up, not compared with the model that failed.
NoFallbackConfigured(c) == Falsy(FallbackModel(c))

\* `not fallback_model or model_to_use == fallback_model`
NoDistinctFallback(c) ==
    Falsy(FallbackModel(c)) \/ c.model_to_use = FallbackModel(c)

\* Mutant: a failed fallback call goes back to the primary model.
FallbackFailedRetries(c, log) ==
    [call |-> [c EXCEPT !.st = "primary", !.k = Len(log) + 1],
     log |-> Append(log, [log[c.k] EXCEPT !.hop = "primary", !.model = c.model_to_use,
                                          !.outcome = "pending"])]

\* call_gemini(prompt, fallback_model, ...) failed: lines 227-228.
FallbackFailed(c, log) ==
    [call |-> Raised(c, Exc("ModelAPIError",
                  "Fallback model " \o FallbackModel(c) \o " also failed.")),
     log |-> log]

\* Mutant: the fallback call is made without the system prompt.
PrimaryFailedDropsSystemPrompt(slot, c, log, initialized) ==
    IF NoDistinctFallback(c)
    THEN [call |-> Raised(c, Exc("ModelAPIError",
                  "Model " \o c.model_to_use \o " failed and no distinct fallback is available.")),
          log |-> log]
    ELSE LET log2 == Append(log, GeminiCall(slot, "fallback",
                                     [c EXCEPT !.system_prompt = None],
                                     FallbackModel(c), initialized))
         IN  IF ~initialized
             THEN FallbackFailed([c EXCEPT !.k = Len(log2)], log2)
             ELSE [call |-> [c EXCEPT !.st = "fallback", !.k = Len(log2)], log |-> log2]

\* The except branch of the primary call, lines 212-228, up to its next suspension.
PrimaryFailed(slot, c, log, initialized) ==
    IF NoDistinctFallback(c)
    THEN [call |-> Raised(c, Exc("ModelAPIError",
                  "Model " \o c.model_to_use \o " failed and no distinct fallback is available.")),
          log |-> log]
    ELSE LET log2 == Append(log, GeminiCall(slot, "fallback", c, FallbackModel(c), initialized))
         IN  IF ~initialized
             THEN FallbackFailed([c EXCEPT !.k = Len(log2)], log2)
             ELSE [call |-> [c EXCEPT !.st = "fallback", !.k = Len(log2)], log |-> log2]

\* Mutant: call_gemini without the check of _is_initialized.
PrimaryCallUnchecked(slot, c, log, initialized) ==
    LET log1 == Append(log, GeminiCall(slot, "primary", c, c.model_to_use, TRUE))
    IN  [call |-> [c EXCEPT !.st = "primary", !.p = Len(log1), !.k = Len(log1)],
         log |-> log1]

\* Step 5: the primary call_gemini, up to its first suspension.
PrimaryCall(slot, c, log, initialized) ==
    LET log1 == Append(log, GeminiCall(slot, "primary", c, c.model_to_use, initialized))
    IN  IF ~initialized
        THEN PrimaryFailed(slot, [c EXCEPT !.p = Len(log1), !.k = Len(log1)], log1, initialized)
        ELSE [call |-> [c EXCEPT !.st = "primary", !.p = Len(log1), !.k = Len(log1)],
              log |-> log1]

\* Mutant: call_model without its dry-run branch.
CallModelEnterWithoutDryRun(slot, a, main, log, initialized) ==
    LET eff == EffectiveConfig(main, a.config)
        m   == ModelToUse(a.model_name, a.role, main, eff)
        c   == [IdleCall EXCEPT !.prompt = a.prompt, !.model_name = a.model_name,
                                !.system_prompt = a.system_prompt, !.config = a.config,
                                !.dry_run = a.dry_run, !.role = a.role,
                                !.model_to_use = m, !.effective_config = eff]
    IN  IF Falsy(m)
        THEN [call |-> Raised(c, Exc("ValueError", "No model name provided or configured.")),
              log |-> log]
        ELSE IF StartsWith(m, "mock")
        THEN [call |-> Returned(c, MockMarker(m)), log |-> log]
        ELSE PrimaryCall(slot, c, log, initialized)

\* call_model from its entry to its first suspension (or to its end, when it never
\* suspends): resolution, the dry-run and mock short-circuits, the primary call.
CallModelEnter(slot, a, main, log, initialized) ==
    LET eff == EffectiveConfig(main, a.config)
        m   == ModelToUse(a.model_name, a.role, main, eff)
        c   == [IdleCall EXCEPT !.prompt = a.prompt, !.model_name = a.model_name,
                                !.system_prompt = a.system_prompt, !.config = a.config,
                                !.dry_run = a.dry_run, !.role = a.role,
                                !.model_to_use = m, !.effective_config = eff]
    IN  IF Falsy(m)
        THEN [call |-> Raised(c, Exc("ValueError", "No model name provided or configured.")),
              log |-> log]
        ELSE IF a.dry_run
        THEN [call |-> Returned(c, DryRunMarker(m)), log |-> log]
        ELSE IF StartsWith(m, "mock")
        THEN [call |-> Returned(c, MockMarker(m)), log |-> log]
        ELSE PrimaryCall(slot, c, log, initialized)

\* No self-review is under way.
NoReviews ==
    /\ clock = 0
    /\ reviews = <<>>
    /\ log_dir = EmptyDict

\* No other run to compare with.
NoRun ==
    [ended |-> FALSE, stop_threshold |-> 0, gemini_calls |-> <<>>, outcome |-> "",
     final_output |-> "", reason_for_stopping |-> ""]

\* What an in-flight call_gemini can end with: a failure, or one of the texts the
\* backend may answer with. When the run is put next to another run, the backend
\* answers its n-th invocation as it answered the n-th invocation of that run.
Replies(c) ==
    IF other_run.ended /\ c.k \in 1..Len(other_run.gemini_calls)
    THEN {[ok |-> other_run.gemini_calls[c.k].outcome = "ok",
           text |-> other_run.gemini_calls[c.k].text,
           cause |-> other_run.gemini_calls[c.k].cause]}
    ELSE {[ok |-> FALSE, text |-> "", cause |-> x] : x \in failures}
             \cup {[ok |-> TRUE, text |-> t, cause |-> ""] : t \in BackendTexts(c)}

\* The in-flight primary call_gemini of a call settles: line 211 returns, or the
\* except branch runs.
PrimarySettled(slot, c, log, reply, initialized) ==
    IF reply.ok
    THEN [call |-> Returned(c, reply.text),
          log |-> [log EXCEPT ![c.k].outcome = "ok", ![c.k].text = reply.text]]
    ELSE PrimaryFailed(slot, c, [log EXCEPT ![c.k].outcome = "fail",
                                            ![c.k].cause = reply.cause], initialized)

\* The in-flight fallback call_gemini of a call settles: line 226 returns or raises.
FallbackSettled(c, log, reply) ==
    IF reply.ok
    THEN [call |-> Returned(c, reply.text),
          log |-> [log EXCEPT ![c.k].outcome = "ok", ![c.k].text = reply.text]]
    ELSE FallbackFailed(c, [log EXCEPT ![c.k].outcome = "fail", ![c.k].cause = reply.cause])

\* initialize(api_key): the new value of _is_initialized. configured: whether
\* genai.configure returned.
InitializeResult(api_key, configured, cur) ==
    IF Falsy(api_key) THEN cur
    ELSE IF configured THEN TRUE ELSE cur

\* The steps of call_model as actions on a slot; the caller states what else changes.
EnterCall(slot, a) ==
    LET r == CallModelEnter(slot, a, main_config, gemini_calls, is_initialized)
    IN  /\ calls' = [calls EXCEPT ![slot] = r.call]
        /\ gemini_calls' = r.log

SettlePrimary(slot, reply) ==
    LET r == PrimarySettled(slot, calls[slot], gemini_calls, reply, is_initialized)
    IN  /\ calls[slot].st = "primary"
        /\ calls' = [calls EXCEPT ![slot] = r.call]
        /\ gemini_calls' = r.log

SettleFallback(slot, reply) ==
    LET r == FallbackSettled(calls[slot], gemini_calls, reply)
    IN  /\ calls[slot].st = "fallback"
        /\ calls' = [calls EXCEPT ![slot] = r.call]
        /\ gemini_calls' = r.log

\* The call_gemini invocations of the call_model invocation now in a slot.
AttemptsOf(slot) ==
    LET c == calls[slot]
        idx == {n \in 1..Len(gemini_calls) : n >= c.p /\ gemini_calls[n].slot = slot}
    IN  IF c.p = 0 THEN <<>>
        ELSE [n \in 1..Cardinality(idx) |->
                 gemini_calls[CHOOSE m \in idx : Cardinality({x \in idx : x < m}) = n - 1]]

(***************************************************************************)
(* core/roles.py                                                           *)
(***************************************************************************)

\* The content of a role template file that exists.
TemplateText(file_name) == "You are " \o file_name

\* load_role_template(file_name), with `absent` the files that do not exist.
LoadRoleTemplate(file_name, absent) ==
    IF file_name \in absent
    THEN [ok |-> FALSE, text |-> "",
          exc |-> Exc("TemplateNotFoundError",
                      "Prompt template not found at prompts/" \o file_name)]
    ELSE [ok |-> TRUE, text |-> TemplateText(file_name), exc |-> NoExc]

(***************************************************************************)
(* core/loop.py: CritiqueRefineLoop                                        *)
(***************************************************************************)

Range(f) == {f[x] : x \in DOMAIN f}

\* A loaded strategy: None, a list of role names, or a mapping that may hold a
\* roles list and a max_rounds entry (Absent when it holds none).
Absent == 0 - 1
NoStrategy == [kind |-> "none", roles |-> <<>>, has_roles |-> FALSE, max_rounds |-> Absent]
ListStrategy(roles) ==
    [kind |-> "list", roles |-> roles, has_roles |-> FALSE, max_rounds |-> Absent]
DictStrategy(has_roles, roles, max_rounds) ==
    [kind |-> "dict", roles |-> roles, has_roles |-> has_roles, max_rounds |-> max_rounds]

\* strategies.yaml as _load_strategy finds it: not there, not parsable, or a mapping
\* of strategy names to strategies.
MissingFile == [kind |-> "missing", strategies |-> EmptyDict]
UnparsableFile == [kind |-> "unparsable", strategies |-> EmptyDict]
YamlFile(strategies) == [kind |-> "yaml", strategies |-> strategies]

\* _load_strategy(strategy_name): None for no name, for a file that is missing or
\* does not parse (the error is logged), and for a name the file does not hold.
LoadStrategy(strategy_name, file) ==
    IF Falsy(strategy_name) THEN NoStrategy
    ELSE IF file.kind # "yaml" THEN NoStrategy
    ELSE IF strategy_name \in DOMAIN file.strategies THEN file.strategies[strategy_name]
    ELSE NoStrategy

\* `if self.strategy`: None, an empty list and an empty mapping are false.
StrategyTruthy(st) ==
    \/ st.kind = "list" /\ st.roles # <<>>
    \/ st.kind = "dict" /\ (st.has_roles \/ st.max_rounds # Absent)

\* [f"{role}.txt" for role in roles]
WithTxt(roles) == [n \in 1..Len(roles) |-> roles[n] \o ".txt"]

\* Mutant: multi_critic_roles is looked at before the strategy.
RolesToUseMultiFirst(c) ==
    IF c.multi_critic_roles # <<>>
    THEN [ok |-> TRUE, exc |-> NoExc, roles |-> c.multi_critic_roles]
    ELSE IF StrategyTruthy(c.strategy)
    THEN [ok |-> TRUE, exc |-> NoExc,
          roles |-> IF c.strategy.kind = "list" THEN WithTxt(c.strategy.roles)
                    ELSE IF c.strategy.has_roles THEN WithTxt(c.strategy.roles)
                    ELSE <<>>]
    ELSE IF ~Falsy(c.default_critic_role_prompt_file)
    THEN [ok |-> TRUE, exc |-> NoExc, roles |-> <<c.default_critic_role_prompt_file>>]
    ELSE [ok |-> FALSE, roles |-> <<>>,
          exc |-> Exc("ValueError", "No critic role specified in the configuration.")]

\* roles_to_use of _critique, or the ValueError it raises.
RolesToUse(c) ==
    IF StrategyTruthy(c.strategy)
    THEN [ok |-> TRUE, exc |-> NoExc,
          roles |-> IF c.strategy.kind = "list" THEN WithTxt(c.strategy.roles)
                    ELSE IF c.strategy.has_roles THEN WithTxt(c.strategy.roles)
                    ELSE <<>>]
    ELSE IF c.multi_critic_roles # <<>>
    THEN [ok |-> TRUE, exc |-> NoExc, roles |-> c.multi_critic_roles]
    ELSE IF ~Falsy(c.default_critic_role_prompt_file)
    THEN [ok |-> TRUE, exc |-> NoExc, roles |-> <<c.default_critic_role_prompt_file>>]
    ELSE [ok |-> FALSE, roles |-> <<>>,
          exc |-> Exc("ValueError", "No critic role specified in the configuration.")]

\* The condition of _run_brainstormer_loop.
BrainstormerActive(st) ==
    StrategyTruthy(st) /\ "brainstormer" \in Range(st.roles)

\* Mutant: one brainstormer round, whatever the strategy holds.
BrainstormerRoundsAlwaysOne(st) == 1

\* brainstormer_rounds
BrainstormerRounds(st) ==
    IF st.kind = "dict" /\ st.max_rounds # Absent THEN st.max_rounds ELSE 1

\* "\n\n".join(critiques)
RECURSIVE Join(_)
Join(texts) ==
    IF Len(texts) = 0 THEN ""
    ELSE IF Len(texts) = 1 THEN texts[1]
    ELSE texts[1] \o "\n\n" \o Join(Tail(texts))

\* Mutant: the results in the order in which the tasks returned.
GatherResultsAsCompleted(cs, n) == [j \in 1..n |-> cs[finished[j]].result]

\* critiques, as asyncio.gather returns them: one per role, in the order of the roles.
GatherResults(cs, n) == [j \in 1..n |-> cs[j].result]

\* Mutant: the refine prompt without the text to refine.
RefinePromptWithoutText(text, critique) ==
    "Original text:\n" \o "\n\nCritique:\n" \o critique
        \o "\n\nRefine the original text based on the critique."

\* refine_prompt_for_model of _refine.
RefinePrompt(text, critique) ==
    "Original text:\n" \o text \o "\n\nCritique:\n" \o critique
        \o "\n\nRefine the original text based on the critique."

\* The arguments of the call_model invocations of the loop.
GeneratorArgs(c) ==
    CallArgs("User prompt: " \o c.initial_user_prompt, c.generator_model, None,
             c.full_config, c.dry_run, "generator")
BrainstormerArgs(c, text, template) ==
    CallArgs(text, c.generator_model, template, c.full_config, c.dry_run, "brainstormer")
CriticArgs(c, text, template) ==
    CallArgs(text, c.critic_model, template, c.full_config, c.dry_run, "critic")
MetaCriticArgs(c, critique) ==
    CallArgs(critique, c.meta_critic_model, DictGet(c.roles, "meta_critic_template"),
             c.full_config, c.dry_run, "meta_critic")
RefinerArgs(c, text, critique) ==
    CallArgs(RefinePrompt(text, critique), c.refiner_model,
             DictGet(c.roles, "refiner_template"), c.full_config, c.dry_run, "refiner")

\* initial_generation_log of _generate.
InitialGenerationLog(c, text) ==
    [text |-> text,
     model_used |-> IF c.initial_content_for_review = None THEN c.generator_model
                    ELSE "N/A (provided content for review)"]

\* critique_log of _critique.
CritiqueLog(c, round_num, roles, critique) ==
    [round |-> round_num, model_used |-> c.critic_model,
     role_prompt_file_used |-> roles, text |-> critique]

\* refinement_log of _refine.
RefinementLog(c, round_num, text) ==
    [round |-> round_num, text |-> text, model_used |-> c.refiner_model,
     role_prompt_file_used |-> c.default_refiner_role_prompt_file]

\* json.loads on the texts a meta-critic call can return: a mapping (with its
\* actionable entry, as Python prints it), another JSON value, or a decode error.
JsonLoads(text) ==
    CASE text = "{\"actionable\": true}" -> [kind |-> "dict", has |-> TRUE, val |-> "True"]
      [] text = "{\"actionable\": false}" -> [kind |-> "dict", has |-> TRUE, val |-> "False"]
      [] text = "{\"actionable\": \"no\"}" -> [kind |-> "dict", has |-> TRUE, val |-> "'no'"]
      [] text = "{\"reason\": \"vague\"}" -> [kind |-> "dict", has |-> FALSE, val |-> "None"]
      [] text = "[true]" -> [kind |-> "list", has |-> FALSE, val |-> "None"]
      [] OTHER -> [kind |-> "error", has |-> FALSE, val |-> "None"]

PyBool(x) == IF x THEN "True" ELSE "False"

\* Python truthiness of a value as printed.
PyTruthy(v) == v \notin {"False", "None", "0", "''"}

\* Mutant: an answer that is no JSON counts as an actionable verdict.
GetMetaCritiqueLenient(c) ==
    IF c.st = "raised" THEN [kind |-> "dict", has |-> TRUE, val |-> "False"]
    ELSE IF JsonLoads(c.result).kind = "error"
    THEN [kind |-> "dict", has |-> TRUE, val |-> "True"]
    ELSE JsonLoads(c.result)

\* What _get_meta_critique returns for a meta-critic call that has ended.
GetMetaCritique(c) ==
    IF c.st = "raised" THEN [kind |-> "dict", has |-> TRUE, val |-> "False"]
    ELSE IF JsonLoads(c.result).kind = "error"
    THEN [kind |-> "dict", has |-> TRUE, val |-> PyBool(Contains(c.result, "ACTIONABLE"))]
    ELSE JsonLoads(c.result)

\* _is_critique_actionable: meta_critique_result.get("actionable", False), which
\* raises AttributeError on a value that is no mapping.
IsCritiqueActionable(c) ==
    LET r == GetMetaCritique(c)
    IN  IF r.kind # "dict"
        THEN [raised |-> TRUE, val |-> "None",
              exc |-> Exc("AttributeError", "'" \o r.kind \o "' object has no attribute 'get'")]
        ELSE [raised |-> FALSE, val |-> IF r.has THEN r.val ELSE "False", exc |-> NoExc]

\* Mutant: the reason names the loop index, not the round.
NonActionableReasonOfIndex(round_num) ==
    "Non-actionable critique received in round " \o ToString(round_num - 1) \o "."

NonActionableReason(round_num) ==
    "Non-actionable critique received in round " \o ToString(round_num) \o "."
MaxRoundsReason(n) == "Max rounds (" \o ToString(n) \o ") reached."
RoundErrorReason(round_num, e) ==
    "Error in round " \o ToString(round_num) \o ": " \o e.msg
TimeoutReason(round_num) == "Timeout in round " \o ToString(round_num)

\* datetime.now().isoformat() in the message of run()'s last handler.
Now == "2025-01-01T00:00:00"

\* Mutant: the round re-raises every exception that is no timeout.
RoundExceptReraises(e, round_num, log) ==
    IF e.type = "TimeoutError"
    THEN [pc |-> "after_loop", exc |-> NoExc,
          run_log |-> [log EXCEPT !.reason_for_stopping = TimeoutReason(round_num)]]
    ELSE [pc |-> "handler", exc |-> e, run_log |-> log]

\* The except clauses of the round, lines 208-217: where run() goes on, with which
\* exception in flight and which run log.
RoundExcept(e, round_num, log) ==
    IF e.type = "TimeoutError"
    THEN [pc |-> "after_loop", exc |-> NoExc,
          run_log |-> [log EXCEPT !.reason_for_stopping = TimeoutReason(round_num)]]
    ELSE IF e.type \in {"TemplateNotFoundError", "ValueError"}
    THEN [pc |-> "handler", exc |-> e, run_log |-> log]
    ELSE [pc |-> "after_loop", exc |-> NoExc,
          run_log |-> [log EXCEPT !.reason_for_stopping = RoundErrorReason(round_num, e)]]

\* Mutant: the line written holds no records of the rounds.
LogRunWithoutRecords(file, entry) ==
    Append(file, [entry EXCEPT !.critiques = <<>>, !.refinements = <<>>])

\* Logger.log_run of the loop's logger, which does not redact in the runs that are
\* checked: one line appended to the file.
LogRun(file, entry) == Append(file, entry)

\* Mutant: run() records the max-rounds reason whatever the loop has recorded.
RunReturnOverwrites(log, text, max_rounds, file) ==
    LET l1 == [log EXCEPT !.reason_for_stopping = MaxRoundsReason(max_rounds)]
        l2 == [l1 EXCEPT !.final_output = text]
    IN  [run_log |-> l2, log_file |-> LogRun(file, l2)]

\* Lines 306-311 and the finally clause: the run log and the log file when the
\* loop has returned.
RunReturn(log, text, max_rounds, file) ==
    LET l1 == IF log.reason_for_stopping = ""
              THEN [log EXCEPT !.reason_for_stopping = MaxRoundsReason(max_rounds)]
              ELSE log
        l2 == [l1 EXCEPT !.final_output = text]
    IN  [run_log |-> l2, log_file |-> LogRun(file, l2)]

\* Mutant: the last handler of run() leaves the reason for stopping as it is.
RunExceptKeepsReason(e, log, file) ==
    IF e.type \in {"TemplateNotFoundError", "TimeoutError"}
    THEN LET l == [log EXCEPT !.reason_for_stopping = "Error: " \o e.msg,
                              !.final_output = ""]
         IN  [run_log |-> l, log_file |-> LogRun(LogRun(file, l), l)]
    ELSE LET l == [log EXCEPT !.final_output = ""]
         IN  [run_log |-> l, log_file |-> LogRun(file, l)]

\* The except clauses of run(), lines 313-324, and the finally clause.
RunExcept(e, log, file) ==
    IF e.type \in {"TemplateNotFoundError", "TimeoutError"}
    THEN LET l == [log EXCEPT !.reason_for_stopping = "Error: " \o e.msg,
                              !.final_output = ""]
         IN  [run_log |-> l, log_file |-> LogRun(LogRun(file, l), l)]
    ELSE LET l == [log EXCEPT !.reason_for_stopping =
                           "[" \o Now \o "] Error during critique/refine loop: " \o e.msg,
                              !.final_output = ""]
         IN  [run_log |-> l, log_file |-> LogRun(file, l)]

(***************************************************************************)
(* The runs that are checked                                               *)
(***************************************************************************)

\* The largest max_rounds, and the longest list of critic roles.
MaxRounds == 2
MaxCritics == 2

\* Slot 0 carries the calls run() awaits itself, slots 1.. the critic tasks of
\* the round's asyncio.gather.
Slots == 0..MaxCritics

CriticRoleNames == <<"clarity", "brevity", "tone", "depth">>
CriticRoles == SubSeq(CriticRoleNames, 1, MaxCritics)

\* build_run_config's default model name.
DefaultModelName == "gemini-1.5-flash"

RolesWithMeta ==
    ("refiner_template" :> TemplateText("refiner.txt"))
        @@ ("meta_critic_template" :> TemplateText("meta_critic.txt"))
RolesWithoutMeta == ("refiner_template" :> TemplateText("refiner.txt"))

BaseRunConfig ==
    [generator_model |-> DefaultModelName, critic_model |-> DefaultModelName,
     refiner_model |-> DefaultModelName, meta_critic_model |-> DefaultModelName,
     max_rounds |-> 1, stop_threshold |-> 50,
     default_critic_role_prompt_file |-> "critic.txt",
     default_refiner_role_prompt_file |-> "refiner.txt",
     multi_critic_roles |-> <<>>, disable_meta_critic |-> TRUE, dry_run |-> FALSE,
     full_config |-> EmptyDict, roles |-> RolesWithMeta, strategy_name |-> None,
     strategy |-> NoStrategy,
     initial_user_prompt |-> "draft", initial_content_for_review |-> None]

NoFallbackMain == [generation |-> EmptyDict, models |-> EmptyDict, roles |-> EmptyDict]
FallbackMain ==
    [generation |-> EmptyDict, models |-> ("fallback_model" :> "gemini-1.5-pro"),
     roles |-> EmptyDict]
DefaultModelMain ==
    [generation |-> EmptyDict, models |-> ("default_model" :> "gemini-1.0-pro"),
     roles |-> EmptyDict]

Strategies ==
    {NoStrategy, ListStrategy(CriticRoles), ListStrategy(<<"brainstormer", "clarity">>),
     DictStrategy(TRUE, <<"clarity">>, Absent), DictStrategy(TRUE, <<"brainstormer">>, 2),
     DictStrategy(FALSE, <<>>, 1)}

\* The strategies of strategies.yaml, by name.
StrategiesFile ==
    YamlFile(("critics" :> ListStrategy(CriticRoles))
                 @@ ("brainstorm_first" :> ListStrategy(<<"brainstormer", "clarity">>))
                 @@ ("clarity_only" :> DictStrategy(TRUE, <<"clarity">>, Absent))
                 @@ ("brainstorm_twice" :> DictStrategy(TRUE, <<"brainstormer">>, 2))
                 @@ ("brainstorm_once" :> DictStrategy(TRUE, <<"brainstormer">>, Absent))
                 @@ ("one_round" :> DictStrategy(FALSE, <<>>, 1)))

\* The strategy names handed to the constructor: none, and the names of the file.
StrategyNames == {None} \cup DOMAIN StrategiesFile.strategies

Scenario(c, m, initialized, absent, answers) ==
    [cfg |-> c, main |-> m, initialized |-> initialized, missing |-> absent,
     meta_answers |-> answers, failures |-> {"error"}, strategies_file |-> StrategiesFile]

Verdicts == {"{\"actionable\": true}", "{\"actionable\": false}"}

\* Rounds, the meta-critique gate, dry runs and the content handed to run().
ControlScenarios ==
    {Scenario([BaseRunConfig EXCEPT !.max_rounds = n, !.disable_meta_critic = d,
                                    !.roles = r, !.dry_run = dr,
                                    !.initial_content_for_review = ct],
              NoFallbackMain, TRUE, {}, Verdicts) :
        n \in 0..MaxRounds, d \in BOOLEAN, r \in {RolesWithMeta, RolesWithoutMeta},
        dr \in BOOLEAN, ct \in {None, "", "my draft"}}

\* The fan-out of a round over several critic roles, with and without a fallback model.
FanOutScenarios ==
    {Scenario([BaseRunConfig EXCEPT !.max_rounds = n, !.dry_run = dr,
                                    !.multi_critic_roles = WithTxt(CriticRoles)],
              m, TRUE, absent, Verdicts) :
        n \in 1..2, dr \in BOOLEAN, m \in {NoFallbackMain, FallbackMain},
        absent \in {{}, {"brevity.txt"}}}

\* Everything a meta-critic may answer.
MetaScenarios ==
    {Scenario([BaseRunConfig EXCEPT !.max_rounds = n, !.disable_meta_critic = FALSE],
              m, TRUE, {}, MetaResponses) :
        n \in 1..2, m \in {NoFallbackMain, FallbackMain}}

\* The sources of the critic roles, and template files that do not exist.
RoleScenarios ==
    {Scenario([BaseRunConfig EXCEPT !.strategy_name = st, !.multi_critic_roles = mr,
                                    !.default_critic_role_prompt_file = df,
                                    !.dry_run = dr],
              NoFallbackMain, TRUE, absent, Verdicts) :
        st \in StrategyNames, mr \in {<<>>, WithTxt(CriticRoles)}, df \in {None, "critic.txt"},
        dr \in BOOLEAN,
        absent \in {{}, {"clarity.txt"}, {"brainstormer.txt"}}}

\* The models of the roles, the default model, and a router never initialized.
ModelScenarios ==
    {Scenario([BaseRunConfig EXCEPT !.generator_model = g, !.critic_model = c,
                                    !.refiner_model = r, !.meta_critic_model = mc,
                                    !.disable_meta_critic = FALSE, !.dry_run = dr],
              m, initialized, {}, Verdicts) :
        g \in {DefaultModelName, None}, c \in {DefaultModelName, "mock-critic"},
        r \in {DefaultModelName, None}, mc \in {DefaultModelName, None, "mock-meta"},
        dr \in BOOLEAN, m \in {FallbackMain, DefaultModelMain}, initialized \in BOOLEAN}

\* Backend calls that time out, in a round with and without the gate and a fallback.
TimeoutScenarios ==
    {[Scenario([BaseRunConfig EXCEPT !.max_rounds = n, !.disable_meta_critic = d],
               m, TRUE, {}, Verdicts) EXCEPT !.failures = {"error", "timeout"}] :
        n \in 1..2, d \in BOOLEAN, m \in {NoFallbackMain, FallbackMain}}

\* Strategy names that resolve to nothing: a name the file does not hold, and a
\* file that is missing or does not parse.
UnresolvedScenarios ==
    {sc \in {[Scenario([BaseRunConfig EXCEPT !.strategy_name = st,
                                             !.multi_critic_roles = mr,
                                             !.default_critic_role_prompt_file = df],
                       NoFallbackMain, TRUE, {}, Verdicts)
                  EXCEPT !.strategies_file = file] :
                 st \in {"unknown", "critics"}, mr \in {<<>>, WithTxt(CriticRoles)},
                 df \in {None, "critic.txt"},
                 file \in {StrategiesFile, MissingFile, UnparsableFile}} :
        LoadStrategy(sc.cfg.strategy_name, sc.strategies_file) = NoStrategy}

Scenarios ==
    ControlScenarios \cup FanOutScenarios \cup MetaScenarios \cup RoleScenarios
        \cup ModelScenarios \cup TimeoutScenarios \cup UnresolvedScenarios

InitialRunLog ==
    [original_user_prompt |-> None, initial_generation |-> EmptyDict,
     critiques |-> <<>>, refinements |-> <<>>, reason_for_stopping |-> "",
     final_output |-> ""]

\* A critic task asyncio.gather has created and the event loop has not run yet.
CreatedCall == [IdleCall EXCEPT !.st = "created"]

Step(name, round_num) == [step |-> name, round |-> round_num]

\* Mutant: a call counts as ended only once it has returned.
DoneWhenReturned(slot) == calls[slot].st = "returned"

\* The call_model invocation of a slot has ended.
Done(slot) == calls[slot].st \in {"returned", "raised"}

\* The state after CritiqueRefineLoop(run_config, strategy) is constructed.
Init ==
    \E sc \in Scenarios :
        /\ cfg = [sc.cfg EXCEPT
                     !.strategy = LoadStrategy(sc.cfg.strategy_name, sc.strategies_file)]
        /\ main_config = sc.main
        /\ is_initialized = sc.initialized
        /\ missing = sc.missing
        /\ meta_answers = sc.meta_answers
        /\ failures = sc.failures
        /\ calls = [s \in Slots |-> IdleCall]
        /\ gemini_calls = <<>>
        /\ pc = "start"
        /\ loop_i = 0
        /\ brain_i = 0
        /\ brainstormed_text = ""
        /\ current_text = ""
        /\ critique_text = ""
        /\ roles_to_use = <<>>
        /\ gather_exc = NoExc
        /\ finished = <<>>
        /\ exc = NoExc
        /\ run_log = InitialRunLog
        /\ log_file = <<>>
        /\ steps = <<>>
        /\ late = {}
        /\ logger = PlainLogger
        /\ caller_entry = Other(None)
        /\ redacted = <<>>
        /\ before = Other(None)
        /\ run_no = 1
        /\ other_run = NoRun
        /\ NoReviews
envVars == <<main_config, is_initialized, cfg, missing, meta_answers, failures, logger, caller_entry, redacted, before, run_no, other_run, reviewVars>>

(***************************************************************************)
(* run(), one action per stretch of code between two suspensions           *)
(***************************************************************************)

\* run() is entered with content to review: _generate takes it as it is.
GenerateProvided ==
    /\ pc = "start"
    /\ ~Falsy(cfg.initial_content_for_review)
    /\ run_log' = [run_log EXCEPT
                      !.original_user_prompt = cfg.initial_user_prompt,
                      !.initial_generation =
                          InitialGenerationLog(cfg, cfg.initial_content_for_review)]
    /\ current_text' = cfg.initial_content_for_review
    /\ pc' = "brainstorm"
    /\ steps' = Append(steps, Step("provided", 0))
    /\ UNCHANGED <<envVars, calls, gemini_calls, loop_i, brain_i, brainstormed_text, critique_text,
                   roles_to_use, gather_exc, finished, exc, log_file, late>>

\* run() is entered without content: _generate calls the generator model.
GenerateCall ==
    /\ pc = "start"
    /\ Falsy(cfg.initial_content_for_review)
    /\ EnterCall(0, GeneratorArgs(cfg))
    /\ run_log' = [run_log EXCEPT !.original_user_prompt = cfg.initial_user_prompt]
    /\ pc' = "generate"
    /\ steps' = Append(steps, Step("generate", 0))
    /\ UNCHANGED <<envVars, loop_i, brain_i, brainstormed_text, current_text, critique_text,
                   roles_to_use, gather_exc, finished, exc, log_file, late>>

\* The generator call has ended: lines 81-86 and 300, or the exception leaves
\* the try block of run().
GenerateDone ==
    /\ pc = "generate"
    /\ Done(0)
    /\ IF calls[0].st = "returned"
       THEN /\ run_log' = [run_log EXCEPT !.initial_generation =
                               InitialGenerationLog(cfg, calls[0].result)]
            /\ current_text' = calls[0].result
            /\ pc' = "brainstorm"
            /\ exc' = exc
       ELSE /\ exc' = calls[0].exc
            /\ pc' = "handler"
            /\ UNCHANGED <<run_log, current_text>>
    /\ UNCHANGED <<envVars, calls, gemini_calls, loop_i, brain_i, brainstormed_text, critique_text,
                   roles_to_use, gather_exc, finished, log_file, steps, late>>

\* _run_brainstormer_loop: the next brainstormer round calls the model.
BrainstormCall ==
    /\ pc = "brainstorm"
    /\ BrainstormerActive(cfg.strategy)
    /\ brain_i < BrainstormerRounds(cfg.strategy)
    /\ LoadRoleTemplate("brainstormer.txt", missing).ok
    /\ EnterCall(0, BrainstormerArgs(cfg, current_text,
                        LoadRoleTemplate("brainstormer.txt", missing).text))
    /\ pc' = "brainstorm_call"
    /\ steps' = Append(steps, Step("brainstorm", brain_i + 1))
    /\ UNCHANGED <<envVars, loop_i, brain_i, brainstormed_text, current_text, critique_text,
                   roles_to_use, gather_exc, finished, exc, run_log, log_file, late>>

\* _run_brainstormer_loop: brainstormer.txt does not exist.
BrainstormTemplateMissing ==
    /\ pc = "brainstorm"
    /\ BrainstormerActive(cfg.strategy)
    /\ brain_i < BrainstormerRounds(cfg.strategy)
    /\ ~LoadRoleTemplate("brainstormer.txt", missing).ok
    /\ exc' = LoadRoleTemplate("brainstormer.txt", missing).exc
    /\ pc' = "handler"
    /\ UNCHANGED <<envVars, calls, gemini_calls, loop_i, brain_i, brainstormed_text, current_text,
                   critique_text, roles_to_use, gather_exc, finished, run_log, log_file,
                   steps, late>>

\* The brainstormer call has ended.
BrainstormDone ==
    /\ pc = "brainstorm_call"
    /\ Done(0)
    /\ IF calls[0].st = "returned"
       THEN /\ current_text' = calls[0].result
            /\ brain_i' = brain_i + 1
            /\ pc' = "brainstorm"
            /\ exc' = exc
       ELSE /\ exc' = calls[0].exc
            /\ pc' = "handler"
            /\ UNCHANGED <<current_text, brain_i>>
    /\ UNCHANGED <<envVars, brainstormed_text, calls, gemini_calls, loop_i, critique_text,
                   roles_to_use, gather_exc, finished, run_log, log_file, steps, late>>

\* _run_brainstormer_loop returns: it does not apply, or its rounds are over.
BrainstormEnd ==
    /\ pc = "brainstorm"
    /\ ~(BrainstormerActive(cfg.strategy) /\ brain_i < BrainstormerRounds(cfg.strategy))
    /\ brainstormed_text' = current_text
    /\ pc' = "round"
    /\ loop_i' = 0
    /\ UNCHANGED <<envVars, calls, gemini_calls, brain_i, current_text, critique_text,
                   roles_to_use, gather_exc, finished, exc, run_log, log_file, steps, late>>

\* Mutant: one round more than max_rounds.
HasNextRoundInclusive(idx, c) == idx <= c.max_rounds

\* `for i in range(self.max_rounds)`: there is a round after idx rounds.
HasNextRound(idx, c) == idx < c.max_rounds

\* A round begins: _critique resolves the roles and asyncio.gather creates one
\* task per role; without a role the ValueError leaves the loop.
CritiqueStart ==
    /\ pc = "round"
    /\ HasNextRound(loop_i, cfg)
    /\ steps' = Append(steps, Step("critique", loop_i + 1))
    /\ IF RolesToUse(cfg).ok
       THEN /\ roles_to_use' = RolesToUse(cfg).roles
            /\ calls' = [s \in Slots |->
                            IF s \in 1..Len(RolesToUse(cfg).roles) THEN CreatedCall
                            ELSE calls[s]]
            /\ gather_exc' = NoExc
            /\ finished' = <<>>
            /\ pc' = "gather"
            /\ UNCHANGED <<exc, run_log>>
       ELSE /\ exc' = RoundExcept(RolesToUse(cfg).exc, loop_i + 1, run_log).exc
            /\ pc' = RoundExcept(RolesToUse(cfg).exc, loop_i + 1, run_log).pc
            /\ run_log' = RoundExcept(RolesToUse(cfg).exc, loop_i + 1, run_log).run_log
            /\ UNCHANGED <<roles_to_use, calls, gather_exc, finished>>
    /\ UNCHANGED <<envVars, gemini_calls, loop_i, brain_i, brainstormed_text, current_text,
                   critique_text, log_file, late>>

\* What asyncio.gather holds once a task has moved: the first exception stays.
GatherExc(cur, c) ==
    IF cur = NoExc /\ c.st = "raised" THEN c.exc ELSE cur

\* The texts that came back to a gather that had already failed.
Late(cur, gexc, c) ==
    IF gexc # NoExc /\ c.st = "returned" THEN cur \cup {c.result} ELSE cur

\* The critic tasks that have returned, in the order in which they did.
Finished(cur, j, c) ==
    IF c.st = "returned" THEN Append(cur, j) ELSE cur

\* The event loop runs a critic task for the first time, in the order of creation:
\* _get_critique loads the template and enters call_model.
TaskStart(j) ==
    /\ j \in 1..Len(roles_to_use)
    /\ calls[j].st = "created"
    /\ \A m \in 1..(j - 1) : calls[m].st # "created"
    /\ IF LoadRoleTemplate(roles_to_use[j], missing).ok
       THEN EnterCall(j, CriticArgs(cfg, current_text,
                             LoadRoleTemplate(roles_to_use[j], missing).text))
       ELSE /\ calls' = [calls EXCEPT ![j] =
                            Raised(@, LoadRoleTemplate(roles_to_use[j], missing).exc)]
            /\ UNCHANGED gemini_calls
    /\ gather_exc' = GatherExc(gather_exc, calls'[j])
    /\ late' = Late(late, gather_exc, calls'[j])
    /\ finished' = Finished(finished, j, calls'[j])
    /\ UNCHANGED <<envVars, pc, loop_i, brain_i, brainstormed_text, current_text, critique_text,
                   roles_to_use, exc, run_log, log_file, steps>>

\* Mutant: the failure of a task reaches _critique before the tasks created after
\* it have run for the first time.
AllStartedOrNot == TRUE

\* Every task of the gather has run for the first time: the event loop runs the tasks
\* in the order of their creation before it resumes the coroutine that awaits them.
AllStarted == \A m \in 1..Len(roles_to_use) : calls[m].st # "created"

\* The primary call_gemini of a critic task settles.
TaskPrimarySettle(j) ==
    /\ j \in 1..Len(roles_to_use)
    /\ AllStarted
    /\ \E reply \in Replies(calls[j]) : SettlePrimary(j, reply)
    /\ gather_exc' = GatherExc(gather_exc, calls'[j])
    /\ late' = Late(late, gather_exc, calls'[j])
    /\ finished' = Finished(finished, j, calls'[j])
    /\ UNCHANGED <<envVars, pc, loop_i, brain_i, brainstormed_text, current_text, critique_text,
                   roles_to_use, exc, run_log, log_file, steps>>

\* The fallback call_gemini of a critic task settles.
TaskFallbackSettle(j) ==
    /\ j \in 1..Len(roles_to_use)
    /\ AllStarted
    /\ \E reply \in Replies(calls[j]) : SettleFallback(j, reply)
    /\ gather_exc' = GatherExc(gather_exc, calls'[j])
    /\ late' = Late(late, gather_exc, calls'[j])
    /\ finished' = Finished(finished, j, calls'[j])
    /\ UNCHANGED <<envVars, pc, loop_i, brain_i, brainstormed_text, current_text, critique_text,
                   roles_to_use, exc, run_log, log_file, steps>>

\* A call run() awaits itself settles.
MainPrimarySettle ==
    /\ \E reply \in Replies(calls[0]) : SettlePrimary(0, reply)
    /\ UNCHANGED <<envVars, loopVars>>

MainFallbackSettle ==
    /\ \E reply \in Replies(calls[0]) : SettleFallback(0, reply)
    /\ UNCHANGED <<envVars, loopVars>>

\* Mutant: the gather waits for every task and hands over what it has.
GatherCompletePartial ==
    /\ pc = "gather"
    /\ \A m \in 1..Len(roles_to_use) : calls[m].st \in {"returned", "raised"}

\* asyncio.gather has every result and none failed.
GatherComplete ==
    /\ pc = "gather"
    /\ gather_exc = NoExc
    /\ \A m \in 1..Len(roles_to_use) : calls[m].st = "returned"

\* The critique of the round, lines 150-152.
RoundCritique == Join(GatherResults(calls, Len(roles_to_use)))

\* Mutant: the meta-critic is called whenever it has a template.
MetaCallNeededIgnoringDisable(c) ==
    ~Falsy(DictGet(c.roles, "meta_critic_template"))

\* `if not self.disable_meta_critic`, and _get_meta_critique has a template to call with.
MetaCallNeeded(c) ==
    ~c.disable_meta_critic /\ ~Falsy(DictGet(c.roles, "meta_critic_template"))

\* The critique is joined and logged; the gate is on: the meta-critic is called.
CritiqueDoneMeta ==
    /\ GatherComplete
    /\ MetaCallNeeded(cfg)
    /\ critique_text' = RoundCritique
    /\ run_log' = [run_log EXCEPT !.critiques =
                      Append(@, CritiqueLog(cfg, loop_i + 1, roles_to_use, RoundCritique))]
    /\ EnterCall(0, MetaCriticArgs(cfg, RoundCritique))
    /\ pc' = "meta"
    /\ steps' = Append(steps, Step("meta", loop_i + 1))
    /\ UNCHANGED <<envVars, loop_i, brain_i, brainstormed_text, current_text, roles_to_use, gather_exc, finished,
                   exc, log_file, late>>

\* The critique is joined and logged; the gate is off or has no template: _refine
\* is entered.
CritiqueDoneRefine ==
    /\ GatherComplete
    /\ ~MetaCallNeeded(cfg)
    /\ critique_text' = RoundCritique
    /\ run_log' = [run_log EXCEPT !.critiques =
                      Append(@, CritiqueLog(cfg, loop_i + 1, roles_to_use, RoundCritique))]
    /\ EnterCall(0, RefinerArgs(cfg, current_text, RoundCritique))
    /\ pc' = "refine"
    /\ steps' = Append(steps, Step("refine", loop_i + 1))
    /\ UNCHANGED <<envVars, loop_i, brain_i, brainstormed_text, current_text, roles_to_use, gather_exc, finished,
                   exc, log_file, late>>

\* asyncio.gather raises the first exception of its tasks into _critique, which
\* re-raises it into the round's except clauses.
CritiqueRaise ==
    /\ pc = "gather"
    /\ gather_exc # NoExc
    /\ AllStarted
    /\ pc' = RoundExcept(gather_exc, loop_i + 1, run_log).pc
    /\ exc' = RoundExcept(gather_exc, loop_i + 1, run_log).exc
    /\ run_log' = RoundExcept(gather_exc, loop_i + 1, run_log).run_log
    /\ UNCHANGED <<envVars, calls, gemini_calls, loop_i, brain_i, brainstormed_text, current_text,
                   critique_text, roles_to_use, gather_exc, finished, log_file, steps, late>>

\* The meta-critic call has ended with an actionable verdict: _refine is entered.
MetaActionable ==
    /\ pc = "meta"
    /\ Done(0)
    /\ ~IsCritiqueActionable(calls[0]).raised
    /\ PyTruthy(IsCritiqueActionable(calls[0]).val)
    /\ EnterCall(0, RefinerArgs(cfg, current_text, critique_text))
    /\ pc' = "refine"
    /\ steps' = steps \o <<Step("verdict_true", loop_i + 1), Step("refine", loop_i + 1)>>
    /\ UNCHANGED <<envVars, loop_i, brain_i, brainstormed_text, current_text, critique_text,
                   roles_to_use, gather_exc, finished, exc, run_log, log_file, late>>

\* The gate as a counter of strikes: the loop stops once stop_threshold verdicts
\* were not actionable, and refines until then.
MetaNotActionableCounted ==
    /\ pc = "meta"
    /\ Done(0)
    /\ ~IsCritiqueActionable(calls[0]).raised
    /\ ~PyTruthy(IsCritiqueActionable(calls[0]).val)
    /\ IF Cardinality({n \in 1..Len(steps) : steps[n].step = "verdict_false"}) + 1
              >= cfg.stop_threshold
       THEN /\ run_log' = [run_log EXCEPT !.reason_for_stopping = NonActionableReason(loop_i + 1)]
            /\ pc' = "after_loop"
            /\ UNCHANGED <<calls, gemini_calls>>
       ELSE /\ EnterCall(0, RefinerArgs(cfg, current_text, critique_text))
            /\ pc' = "refine"
            /\ UNCHANGED run_log
    /\ steps' = Append(steps, Step("verdict_false", loop_i + 1))
    /\ UNCHANGED <<envVars, loop_i, brain_i, brainstormed_text, current_text,
                   critique_text, roles_to_use, gather_exc, finished, exc, log_file, late>>

\* The meta-critic call has ended with a verdict that is not actionable: lines 197-201.
MetaNotActionable ==
    /\ pc = "meta"
    /\ Done(0)
    /\ ~IsCritiqueActionable(calls[0]).raised
    /\ ~PyTruthy(IsCritiqueActionable(calls[0]).val)
    /\ run_log' = [run_log EXCEPT !.reason_for_stopping = NonActionableReason(loop_i + 1)]
    /\ pc' = "after_loop"
    /\ steps' = Append(steps, Step("verdict_false", loop_i + 1))
    /\ UNCHANGED <<envVars, calls, gemini_calls, loop_i, brain_i, brainstormed_text, current_text,
                   critique_text, roles_to_use, gather_exc, finished, exc, log_file, late>>

\* The meta-critic's answer is JSON but no mapping: .get raises in
\* _is_critique_actionable, into the round's except clauses.
MetaRaise ==
    /\ pc = "meta"
    /\ Done(0)
    /\ IsCritiqueActionable(calls[0]).raised
    /\ pc' = RoundExcept(IsCritiqueActionable(calls[0]).exc, loop_i + 1, run_log).pc
    /\ exc' = RoundExcept(IsCritiqueActionable(calls[0]).exc, loop_i + 1, run_log).exc
    /\ run_log' = RoundExcept(IsCritiqueActionable(calls[0]).exc, loop_i + 1, run_log).run_log
    /\ UNCHANGED <<envVars, calls, gemini_calls, loop_i, brain_i, brainstormed_text, current_text,
                   critique_text, roles_to_use, gather_exc, finished, log_file, steps, late>>

\* Mutant: the refinement is recorded and the round after it starts from the text
\* the round before it started from.
RefineDoneKeepsText ==
    /\ pc = "refine"
    /\ calls[0].st = "returned"
    /\ run_log' = [run_log EXCEPT !.refinements =
                      Append(@, RefinementLog(cfg, loop_i + 1, calls[0].result))]
    /\ loop_i' = loop_i + 1
    /\ pc' = "round"
    /\ UNCHANGED <<envVars, calls, gemini_calls, brain_i, brainstormed_text, current_text,
                   critique_text, roles_to_use, gather_exc, finished, exc, log_file, steps, late>>

\* The refiner call has returned: lines 178-185 and 206-207, and the next round.
RefineDone ==
    /\ pc = "refine"
    /\ calls[0].st = "returned"
    /\ run_log' = [run_log EXCEPT !.refinements =
                      Append(@, RefinementLog(cfg, loop_i + 1, calls[0].result))]
    /\ current_text' = calls[0].result
    /\ loop_i' = loop_i + 1
    /\ pc' = "round"
    /\ UNCHANGED <<envVars, calls, gemini_calls, brain_i, brainstormed_text, critique_text, roles_to_use,
                   gather_exc, finished, exc, log_file, steps, late>>

\* The refiner call has raised, into the round's except clauses.
RefineRaise ==
    /\ pc = "refine"
    /\ calls[0].st = "raised"
    /\ pc' = RoundExcept(calls[0].exc, loop_i + 1, run_log).pc
    /\ exc' = RoundExcept(calls[0].exc, loop_i + 1, run_log).exc
    /\ run_log' = RoundExcept(calls[0].exc, loop_i + 1, run_log).run_log
    /\ UNCHANGED <<envVars, calls, gemini_calls, loop_i, brain_i, brainstormed_text, current_text,
                   critique_text, roles_to_use, gather_exc, finished, log_file, steps, late>>

\* range(self.max_rounds) is exhausted: line 218.
LoopEnd ==
    /\ pc = "round"
    /\ ~HasNextRound(loop_i, cfg)
    /\ pc' = "after_loop"
    /\ UNCHANGED <<envVars, calls, gemini_calls, loop_i, brain_i, brainstormed_text, current_text,
                   critique_text, roles_to_use, gather_exc, finished, exc, run_log, log_file,
                   steps, late>>

\* _run_critique_refine_loop has returned: lines 306-311, finally, return.
ReturnRun ==
    /\ pc = "after_loop"
    /\ run_log' = RunReturn(run_log, current_text, cfg.max_rounds, log_file).run_log
    /\ log_file' = RunReturn(run_log, current_text, cfg.max_rounds, log_file).log_file
    /\ pc' = "returned"
    /\ UNCHANGED <<envVars, calls, gemini_calls, loop_i, brain_i, brainstormed_text, current_text,
                   critique_text, roles_to_use, gather_exc, finished, exc, steps, late>>

\* An exception has left the try block of run(): its except clause, finally, raise.
RaiseRun ==
    /\ pc = "handler"
    /\ run_log' = RunExcept(exc, run_log, log_file).run_log
    /\ log_file' = RunExcept(exc, run_log, log_file).log_file
    /\ pc' = "raised"
    /\ UNCHANGED <<envVars, calls, gemini_calls, loop_i, brain_i, brainstormed_text, current_text,
                   critique_text, roles_to_use, gather_exc, finished, exc, steps, late>>

Next ==
    \/ GenerateProvided
    \/ GenerateCall
    \/ GenerateDone
    \/ BrainstormCall
    \/ BrainstormTemplateMissing
    \/ BrainstormDone
    \/ BrainstormEnd
    \/ CritiqueStart
    \/ \E j \in 1..MaxCritics : TaskStart(j)
    \/ \E j \in 1..MaxCritics : TaskPrimarySettle(j)
    \/ \E j \in 1..MaxCritics : TaskFallbackSettle(j)
    \/ MainPrimarySettle
    \/ MainFallbackSettle
    \/ CritiqueDoneMeta
    \/ CritiqueDoneRefine
    \/ CritiqueRaise
    \/ MetaActionable
    \/ MetaNotActionable
    \/ MetaRaise
    \/ RefineDone
    \/ RefineRaise
    \/ LoopEnd
    \/ ReturnRun
    \/ RaiseRun

Spec == Init /\ [][Next]_vars

\* The loops whose runs are followed to their end: every scenario but the fan-out
\* ones with a fallback model (the role scenarios have the fan-out over several
\* critic roles).
FairScenarios == Scenarios \ FanOutScenarios

FairInit ==
    /\ Init
    /\ \E sc \in FairScenarios :
          /\ cfg = [sc.cfg EXCEPT
                       !.strategy = LoadStrategy(sc.cfg.strategy_name, sc.strategies_file)]
          /\ main_config = sc.main
          /\ is_initialized = sc.initialized
          /\ missing = sc.missing
          /\ meta_answers = sc.meta_answers
          /\ failures = sc.failures

\* The run under the event loop: a coroutine that can go on does go on, and a
\* backend invocation in flight returns or fails in the end.
FairSpec == FairInit /\ [][Next]_vars /\ WF_vars(Next)

(***************************************************************************)
(* run() invoked again on the same loop                                    *)
(***************************************************************************)

MaxRuns == 2

\* Loops with one critic role, with and without the gate and content to review.
RerunScenarios ==
    {Scenario([BaseRunConfig EXCEPT !.max_rounds = n, !.disable_meta_critic = d,
                                    !.initial_content_for_review = ct],
              NoFallbackMain, TRUE, {}, Verdicts) :
        n \in 1..MaxRounds, d \in BOOLEAN, ct \in {None, "my draft"}}

RerunInit ==
    /\ Init
    /\ \E sc \in RerunScenarios : cfg = sc.cfg /\ main_config = sc.main

\* run() is invoked again, with the same arguments, once the run before it has
\* ended and its calls have settled: the locals of run() are new, self.run_log is
\* the dictionary __init__ made (lines 47-67, run() assigns no new one), the log
\* file is the one of the run configuration. The histories begin again.
RunAgain ==
    /\ pc \in {"returned", "raised"}
    /\ run_no < MaxRuns
    /\ \A s \in Slots : calls[s].st \in {"idle", "returned", "raised"}
    /\ run_no' = run_no + 1
    /\ pc' = "start"
    /\ calls' = [s \in Slots |-> IdleCall]
    /\ gemini_calls' = <<>>
    /\ loop_i' = 0
    /\ brain_i' = 0
    /\ brainstormed_text' = ""
    /\ current_text' = ""
    /\ critique_text' = ""
    /\ roles_to_use' = <<>>
    /\ gather_exc' = NoExc
    /\ finished' = <<>>
    /\ exc' = NoExc
    /\ steps' = <<>>
    /\ late' = {}
    /\ UNCHANGED <<main_config, is_initialized, cfg, missing, meta_answers, failures, run_log, log_file, logger, caller_entry, redacted, before, other_run, reviewVars>>

RerunNext ==
    \/ GenerateProvided
    \/ GenerateCall
    \/ GenerateDone
    \/ BrainstormEnd
    \/ CritiqueStart
    \/ \E j \in 1..MaxCritics : TaskStart(j)
    \/ \E j \in 1..MaxCritics : TaskPrimarySettle(j)
    \/ MainPrimarySettle
    \/ CritiqueDoneMeta
    \/ CritiqueDoneRefine
    \/ CritiqueRaise
    \/ MetaActionable
    \/ MetaNotActionable
    \/ RefineDone
    \/ RefineRaise
    \/ LoopEnd
    \/ ReturnRun
    \/ RaiseRun
    \/ RunAgain

RerunSpec == RerunInit /\ [][RerunNext]_vars

(***************************************************************************)
(* Two loops that differ in stop_threshold only, run one after the other    *)
(* against the same backend answers                                        *)
(***************************************************************************)

\* The values of stop_threshold tried: the default of the command line and two
\* small ones.
Thresholds == {1, 2, 50}

\* Loops with one critic role and the gate enabled, whose meta-critic may also
\* answer with JSON that is no mapping.
ReplayScenarios ==
    {Scenario([BaseRunConfig EXCEPT !.max_rounds = n, !.disable_meta_critic = FALSE,
                                    !.stop_threshold = t],
              NoFallbackMain, TRUE, {}, Verdicts \cup {"[true]"}) :
        n \in 1..MaxRounds, t \in Thresholds}

\* The state after CritiqueRefineLoop(run_config, strategy) is constructed, for a
\* run configuration whose stop_threshold is one of Thresholds.
ReplayInit ==
    \E sc \in ReplayScenarios :
        /\ cfg = [sc.cfg EXCEPT
                     !.strategy = LoadStrategy(sc.cfg.strategy_name, sc.strategies_file)]
        /\ main_config = sc.main
        /\ is_initialized = sc.initialized
        /\ missing = sc.missing
        /\ meta_answers = sc.meta_answers
        /\ failures = sc.failures
        /\ calls = [s \in Slots |-> IdleCall]
        /\ gemini_calls = <<>>
        /\ pc = "start"
        /\ loop_i = 0
        /\ brain_i = 0
        /\ brainstormed_text = ""
        /\ current_text = ""
        /\ critique_text = ""
        /\ roles_to_use = <<>>
        /\ gather_exc = NoExc
        /\ finished = <<>>
        /\ exc = NoExc
        /\ run_log = InitialRunLog
        /\ log_file = <<>>
        /\ steps = <<>>
        /\ late = {}
        /\ logger = PlainLogger
        /\ caller_entry = Other(None)
        /\ redacted = <<>>
        /\ before = Other(None)
        /\ run_no = 1
        /\ other_run = NoRun
        /\ NoReviews

\* The run has ended and its calls have settled; it is kept for comparison, and a
\* loop is constructed from the same run configuration with another
\* stop_threshold (lines 38 and 47-67) and run on its own log file.
RunWithOtherThreshold ==
    /\ pc \in {"returned", "raised"}
    /\ ~other_run.ended
    /\ \A s \in Slots : calls[s].st \in {"idle", "returned", "raised"}
    /\ other_run' = [ended |-> TRUE, stop_threshold |-> cfg.stop_threshold,
                     gemini_calls |-> gemini_calls, outcome |-> pc,
                     final_output |-> run_log.final_output,
                     reason_for_stopping |-> run_log.reason_for_stopping]
    /\ \E t \in Thresholds \ {cfg.stop_threshold} :
          cfg' = [cfg EXCEPT !.stop_threshold = t]
    /\ run_log' = InitialRunLog
    /\ log_file' = <<>>
    /\ pc' = "start"
    /\ calls' = [s \in Slots |-> IdleCall]
    /\ gemini_calls' = <<>>
    /\ loop_i' = 0
    /\ brain_i' = 0
    /\ brainstormed_text' = ""
    /\ current_text' = ""
    /\ critique_text' = ""
    /\ roles_to_use' = <<>>
    /\ gather_exc' = NoExc
    /\ finished' = <<>>
    /\ exc' = NoExc
    /\ steps' = <<>>
    /\ late' = {}
    /\ UNCHANGED <<main_config, is_initialized, missing, meta_answers, failures, logger, caller_entry, redacted, before, run_no, reviewVars>>

ReplayNext ==
    \/ GenerateCall
    \/ GenerateDone
    \/ BrainstormEnd
    \/ CritiqueStart
    \/ \E j \in 1..MaxCritics : TaskStart(j)
    \/ \E j \in 1..MaxCritics : TaskPrimarySettle(j)
    \/ MainPrimarySettle
    \/ CritiqueDoneMeta
    \/ CritiqueRaise
    \/ MetaActionable
    \/ MetaNotActionable
    \/ MetaRaise
    \/ RefineDone
    \/ RefineRaise
    \/ LoopEnd
    \/ ReturnRun
    \/ RaiseRun
    \/ RunWithOtherThreshold

ReplaySpec == ReplayInit /\ [][ReplayNext]_vars

(***************************************************************************)
(* The per-file reviews SelfReviewTool.run starts together, their run       *)
(* configurations and their log files                                      *)
(***************************************************************************)

MaxFiles == 3
MaxClock == 2

\* datetime.now().strftime("%Y%m%d_%H%M%S") at second t of the day the process runs:
\* the time of day to the second and nothing finer.
Timestamp(t) == "20250101_00000" \o ToString(t)

\* build_run_config, lines 259-264: the path of the run log file.
LogFilePath(t) == "logs/run_" \o Timestamp(t) \o ".jsonl"

\* SelfReviewTool.run has made one task per file path and awaits them all.
ReviewInit ==
    /\ clock = 0
    /\ \E n \in 1..MaxFiles :
          reviews = [f \in 1..n |-> [st |-> "created", log_file_path |-> None]]
    /\ log_dir = EmptyDict
    /\ other_run = NoRun
    /\ logger = PlainLogger
    /\ caller_entry = Other(None)
    /\ redacted = <<>>
    /\ before = Other(None)
    /\ run_no = 1
    /\ main_config = NoFallbackMain
    /\ is_initialized = TRUE
    /\ calls = [s \in Slots |-> IdleCall]
    /\ gemini_calls = <<>>
    /\ cfg = BaseRunConfig
    /\ missing = {}
    /\ meta_answers = {}
    /\ failures = {}
    /\ pc = "self_review"
    /\ loop_i = 0
    /\ brain_i = 0
    /\ brainstormed_text = ""
    /\ current_text = ""
    /\ critique_text = ""
    /\ roles_to_use = <<>>
    /\ gather_exc = NoExc
    /\ finished = <<>>
    /\ exc = NoExc
    /\ run_log = InitialRunLog
    /\ log_file = <<>>
    /\ steps = <<>>
    /\ late = {}

\* What the reviews leave alone.
reviewFrame == <<routerVars, cfg, missing, meta_answers, failures, pc, loop_i, brain_i, brainstormed_text, current_text, critique_text, roles_to_use, gather_exc, finished, exc, run_log, log_file, steps, late, logger, caller_entry, redacted, before, run_no, other_run>>

\* A second goes by.
Tick ==
    /\ clock < MaxClock
    /\ clock' = clock + 1
    /\ UNCHANGED <<reviewFrame, reviews, log_dir>>

\* The task of file f runs: _review_one_file loads the file and _run_review_loop
\* builds the run configuration (line 121) and the loop, whose run() goes on to its
\* first backend call. Nothing on the way suspends, so the task runs that far in
\* one piece.
BuildRunConfig(f) ==
    /\ reviews[f].st = "created"
    /\ reviews' = [reviews EXCEPT ![f] = [st |-> "running",
                                          log_file_path |-> LogFilePath(clock)]]
    /\ UNCHANGED <<reviewFrame, clock, log_dir>>

\* The loop of file f reaches the log_run of its run(): the line of the run is
\* appended to the file at the path of its run configuration.
ReviewLogRun(f) ==
    /\ reviews[f].st = "running"
    /\ LET path == reviews[f].log_file_path
           file == IF path \in DOMAIN log_dir THEN log_dir[path] ELSE <<>>
       IN  log_dir' = (path :> LogRun(file, [review |-> f])) @@ log_dir
    /\ reviews' = [reviews EXCEPT ![f].st = "done"]
    /\ UNCHANGED <<reviewFrame, clock>>

ReviewNext ==
    \/ Tick
    \/ \E f \in DOMAIN reviews : BuildRunConfig(f)
    \/ \E f \in DOMAIN reviews : ReviewLogRun(f)

ReviewSpec == ReviewInit /\ [][ReviewNext]_vars

(***************************************************************************)
(* call_model on its own: one invocation, over the configurations and       *)
(* arguments that decide its resolution and its fallback                    *)
(***************************************************************************)

RouterRoles ==
    {EmptyDict, ("critic" :> ("model" :> "gemini-role")), ("critic" :> EmptyDict)}

RouterModels ==
    {EmptyDict, ("default_model" :> "gemini-default"),
     ("default_model" :> "gemini-default") @@ ("fallback_model" :> "gemini-fallback"),
     ("fallback_model" :> "gemini-pro")}

RouterGeneration ==
    {EmptyDict, ("default_model" :> "gemini-generation") @@ ("temperature" :> "0.2")}

RouterMainConfigs ==
    {[generation |-> g, models |-> m, roles |-> r] :
        g \in RouterGeneration, m \in RouterModels, r \in RouterRoles}

RouterArgs ==
    {CallArgs("draft", model_name, system_prompt, config, dry_run, role) :
        model_name \in {None, "", "gemini-pro", "mock-critic"},
        system_prompt \in {None, "You are critic.txt"},
        config \in {EmptyDict, ("fallback_model" :> "gemini-pro"),
                    ("default_model" :> "gemini-call")},
        dry_run \in BOOLEAN,
        role \in {None, "critic", "critic.txt", "refiner"}}

RouterInit ==
    /\ main_config \in RouterMainConfigs
    /\ is_initialized = FALSE
    /\ calls = [s \in Slots |-> IdleCall]
    /\ gemini_calls = <<>>
    /\ cfg = BaseRunConfig
    /\ missing = {}
    /\ meta_answers = MetaResponses
    /\ failures = {"error", "timeout"}
    /\ pc = "router"
    /\ loop_i = 0
    /\ brain_i = 0
    /\ brainstormed_text = ""
    /\ current_text = ""
    /\ critique_text = ""
    /\ roles_to_use = <<>>
    /\ gather_exc = NoExc
    /\ finished = <<>>
    /\ exc = NoExc
    /\ run_log = InitialRunLog
    /\ log_file = <<>>
    /\ steps = <<>>
    /\ late = {}
    /\ logger = PlainLogger
    /\ caller_entry = Other(None)
    /\ redacted = <<>>
    /\ before = Other(None)
    /\ run_no = 1
    /\ other_run = NoRun
    /\ NoReviews
\* initialize(api_key), with an empty and a set key, genai.configure failing or not.
initialize ==
    /\ \E api_key \in {"", "key"}, configured \in BOOLEAN :
          is_initialized' = InitializeResult(api_key, configured, is_initialized)
    /\ UNCHANGED <<main_config, calls, gemini_calls, loopVars>>

\* call_model is invoked.
call_model ==
    /\ pc = "router"
    /\ calls[0].st = "idle"
    /\ \E a \in RouterArgs : EnterCall(0, a)
    /\ UNCHANGED <<envVars, loopVars>>

RouterNext ==
    \/ initialize
    \/ call_model
    \/ MainPrimarySettle
    \/ MainFallbackSettle

RouterSpec == RouterInit /\ [][RouterNext]_vars


(***************************************************************************)
(* The redactor and the logger on their own                                *)
(***************************************************************************)

MaxDepth == 2
MaxPasses == 3

\* Lists of sensitive keys.
KeyLists == <<<<>>, <<"api_key">>, <<"api_key", "text">>>>

\* Lists of (pattern, replacement) rules: none; a replacement no pattern matches;
\* a pattern in another case; a replacement its own pattern matches; a rule whose
\* replacement an earlier rule matches; a rule that leaves a new match behind.
RuleLists ==
    <<<<>>,
      <<<<"sk-123", "[KEY]">>>>,
      <<<<"TOKEN", "[T]">>, <<"sk-123", "[KEY]">>>>,
      <<<<"secret", "[secret removed]">>>>,
      <<<<"b", "c">>, <<"a", "b">>>>,
      <<<<"aa", "a">>>>>>

\* Structures a caller may hand over.
BaseEntries ==
    <<Str("my Secret sk-123"),
      Other("42"),
      Dict(("api_key" :> Str("sk-123")) @@ ("text" :> Str("aaa token"))),
      List(<<Str("ab"), Other(None), Str("Token sk-123")>>),
      Dict(("api_key" :> Dict("id" :> Str("sk-123"))) @@ ("n" :> Other("1"))),
      Dict(("critiques" :> List(<<Dict("text" :> Str("a secret"))>>))
               @@ ("final_output" :> Str("token"))),
      Dict(EmptyDict)>>

\* A structure inside depth more dicts or lists.
RECURSIVE Nest(_, _, _)
Nest(value, depth, kind) ==
    IF depth = 0 THEN value
    ELSE IF kind = "dict" THEN Dict("inner" :> Nest(value, depth - 1, "list"))
         ELSE List(<<Nest(value, depth - 1, "dict")>>)

RedactInit ==
    /\ \E b \in 1..Len(BaseEntries), depth \in 0..MaxDepth, kind \in {"dict", "list"} :
          caller_entry = Nest(BaseEntries[b], depth, kind)
    /\ \E k \in 1..Len(KeyLists), r \in 1..Len(RuleLists), redact_on \in BOOLEAN :
          logger = Logger(redact_on, KeyLists[k], RuleLists[r])
    /\ redacted = <<>>
    /\ before = Other(None)
    /\ run_no = 1
    /\ other_run = NoRun
    /\ NoReviews
    /\ main_config = NoFallbackMain
    /\ is_initialized = FALSE
    /\ calls = [s \in Slots |-> IdleCall]
    /\ gemini_calls = <<>>
    /\ cfg = BaseRunConfig
    /\ missing = {}
    /\ meta_answers = {}
    /\ failures = {}
    /\ pc = "redact"
    /\ loop_i = 0
    /\ brain_i = 0
    /\ brainstormed_text = ""
    /\ current_text = ""
    /\ critique_text = ""
    /\ roles_to_use = <<>>
    /\ gather_exc = NoExc
    /\ finished = <<>>
    /\ exc = NoExc
    /\ run_log = InitialRunLog
    /\ log_file = <<>>
    /\ steps = <<>>
    /\ late = {}

\* What the redactor and the logger leave alone.
redactFrame == <<routerVars, cfg, missing, meta_answers, failures, pc, loop_i, brain_i, brainstormed_text, current_text, critique_text, roles_to_use, gather_exc, finished, exc, run_log, steps, late, logger, run_no, other_run, reviewVars>>

\* _redact_dict_recursive(caller_entry, keys_to_redact, patterns) is called and returns.
redact_entry ==
    /\ redacted = <<>>
    /\ LET r == RedactDictRecursive(caller_entry, logger.keys_to_redact,
                                    logger.redaction_patterns)
       IN  /\ redacted' = <<r.ret>>
           /\ caller_entry' = r.arg
    /\ before' = caller_entry
    /\ UNCHANGED <<redactFrame, log_file>>

\* _redact_dict_recursive is called on what its last call returned.
redact_again ==
    /\ Len(redacted) \in 1..(MaxPasses - 1)
    /\ LET last == Len(redacted)
           r == RedactDictRecursive(redacted[last], logger.keys_to_redact,
                                    logger.redaction_patterns)
       IN  redacted' = Append([redacted EXCEPT ![last] = r.arg], r.ret)
    /\ UNCHANGED <<redactFrame, log_file, caller_entry, before>>

\* log_run(caller_entry) is called and returns.
log_run ==
    /\ log_file = <<>>
    /\ log_file' = LoggerLogRun(log_file, caller_entry, logger).log_file
    /\ caller_entry' = LoggerLogRun(log_file, caller_entry, logger).log_entry
    /\ before' = caller_entry
    /\ UNCHANGED <<redactFrame, redacted>>

RedactNext ==
    \/ redact_entry
    \/ redact_again
    \/ log_run

RedactSpec == RedactInit /\ [][RedactNext]_vars


(***************************************************************************)
(* The rounds of a run                                                     *)
(***************************************************************************)

Terminated == pc \in {"returned", "raised"}

\* Nothing has failed in the run so far: no call_model invocation has raised (a
\* backend failure that the fallback call made good is no failure of the call), and
\* no exception has gone into the except clauses of the round or of run().
NoFailure ==
    /\ exc = NoExc
    /\ gather_exc = NoExc
    /\ \A s \in Slots : calls[s].st # "raised"
    /\ ~StartsWith(run_log.reason_for_stopping, "Error")
    /\ ~StartsWith(run_log.reason_for_stopping, "Timeout")

IsRoundStep(x) == x.step \in {"critique", "refine"}
IsVerdictStep(x) == x.step \in {"verdict_true", "verdict_false"}

\* The critique and refine steps of the run, in the order in which they began.
RoundSteps == SelectSeq(steps, IsRoundStep)
VerdictSteps == SelectSeq(steps, IsVerdictStep)

\* critique 1, refine 1, ..., critique n, refine n
AlternatingSteps(n) ==
    [x \in 1..(2 * n) |->
        Step(IF x % 2 = 1 THEN "critique" ELSE "refine", (x + 1) \div 2)]

\* C1: a run with max_rounds = N, the meta-critique gate disabled and nothing
\* failing ends by returning, after exactly N critique steps and N refine steps in
\* the order critique 1, refine 1, ..., critique N, refine N, with N critique and N
\* refinement records and the max-rounds-reached reason that names N.
C1_MaxRoundsRun ==
    (Terminated /\ cfg.disable_meta_critic /\ NoFailure) =>
        /\ pc = "returned"
        /\ RoundSteps = AlternatingSteps(cfg.max_rounds)
        /\ Len(run_log.critiques) = cfg.max_rounds
        /\ Len(run_log.refinements) = cfg.max_rounds
        /\ run_log.reason_for_stopping =
               "Max rounds (" \o ToString(cfg.max_rounds) \o ") reached."

C1_Witness ==
    /\ pc = "returned"
    /\ cfg.disable_meta_critic
    /\ NoFailure
    /\ ~cfg.dry_run
    /\ cfg.max_rounds = MaxRounds
    /\ Len(run_log.refinements) = MaxRounds
    /\ run_log.final_output = run_log.refinements[MaxRounds].text

\* C2: when the verdict of the meta-critic is not actionable for the first time in
\* round k and no call fails, the run returns after k critique steps and k - 1 refine
\* steps, with the non-actionable reason that names k, and its final output is the
\* text of the refinement of round k - 1, or the text that entered round 1 when k = 1.
C2_NonActionableStops ==
    \A k \in 1..MaxRounds :
        (Terminated /\ NoFailure /\ Step("verdict_false", k) \in Range(steps)) =>
            /\ pc = "returned"
            /\ RoundSteps = SubSeq(AlternatingSteps(k), 1, 2 * k - 1)
            /\ VerdictSteps =
                   [x \in 1..k |-> Step(IF x < k THEN "verdict_true" ELSE "verdict_false", x)]
            /\ Len(run_log.critiques) = k
            /\ Len(run_log.refinements) = k - 1
            /\ run_log.reason_for_stopping =
                   "Non-actionable critique received in round " \o ToString(k) \o "."
            /\ run_log.final_output = IF k = 1 THEN brainstormed_text
                                      ELSE run_log.refinements[k - 1].text

C2_Witness ==
    /\ pc = "returned"
    /\ NoFailure
    /\ Step("verdict_false", 2) \in Range(steps)
    /\ ~cfg.dry_run
    /\ run_log.final_output = run_log.refinements[1].text

\* C3: a run that has ended, by returning or by raising, has written its run log
\* to the log file exactly once.
C3_LogRunOnce ==
    Terminated => Len(log_file) = 1

(***************************************************************************)
(* The fan-out of a round over its critic roles                            *)
(***************************************************************************)

\* C4: when the critic calls of a round have all returned, in whatever order, the
\* critique of the round and its record are the texts of the roles joined in the
\* order of the roles in the configuration, the text of a role being what the call
\* made with the template of that role returned.
C4_JoinInRoleOrder ==
    pc \in {"meta", "refine"} =>
        LET n   == Len(roles_to_use)
            rec == run_log.critiques[loop_i + 1]
        IN  /\ Len(run_log.critiques) = loop_i + 1
            /\ roles_to_use = RolesToUse(cfg).roles
            /\ rec.round = loop_i + 1
            /\ rec.role_prompt_file_used = roles_to_use
            /\ \A j \in 1..n :
                  /\ calls[j].st = "returned"
                  /\ calls[j].system_prompt = TemplateText(roles_to_use[j])
            /\ rec.text = Join([j \in 1..n |-> calls[j].result])
            /\ critique_text = rec.text

C4_Witness ==
    /\ pc \in {"meta", "refine"}
    /\ Len(roles_to_use) = MaxCritics
    /\ ~cfg.dry_run
    /\ Len(finished) = MaxCritics
    /\ finished[1] = MaxCritics
    /\ calls[1].result # calls[2].result

\* The texts the backend returned to a critic task after the gather had failed.
LateBackendTexts ==
    {t \in late : \E n \in 1..Len(gemini_calls) :
                      gemini_calls[n].outcome = "ok" /\ gemini_calls[n].text = t}

\* A text is in what the run keeps or hands on: a critique or refinement record, the
\* prompt of a backend call, the text under review, the final output.
Kept(t) ==
    \/ \E r \in 1..Len(run_log.critiques) : Contains(run_log.critiques[r].text, t)
    \/ \E r \in 1..Len(run_log.refinements) : Contains(run_log.refinements[r].text, t)
    \/ \E n \in 1..Len(gemini_calls) : Contains(gemini_calls[n].prompt, t)
    \/ Contains(critique_text, t)
    \/ Contains(current_text, t)
    \/ Contains(run_log.final_output, t)

\* C5: once a critic call of a round has failed, the round has no critique record,
\* no meta-critique and no refinement, and a text another critic call of the round
\* returns afterwards is in no critique record, no refinement, no prompt and not in
\* the final output.
C5_NoPartialJoin ==
    gather_exc # NoExc =>
        /\ pc \notin {"meta", "refine"}
        /\ Len(run_log.critiques) = loop_i
        /\ Len(run_log.refinements) = loop_i
        /\ \A x \in Range(steps) :
              x.step \in {"meta", "refine", "verdict_true", "verdict_false"} =>
                  x.round <= loop_i
        /\ \A t \in LateBackendTexts : ~Kept(t)

C5_Witness ==
    /\ pc = "returned"
    /\ gather_exc # NoExc
    /\ LateBackendTexts # {}
    /\ loop_i = 1
    /\ Len(run_log.critiques) = 1
    /\ run_log.final_output = run_log.refinements[1].text

(***************************************************************************)
(* Failures inside a round                                                 *)
(***************************************************************************)

\* The roles whose calls are made inside a round.
RoundRoles == {"critic", "meta_critic", "refiner"}

\* The text that was current when a round began.
TextAtStartOf(round_num) ==
    IF round_num = 1 THEN brainstormed_text
    ELSE run_log.refinements[round_num - 1].text

\* The rounds in which some step has begun.
RoundsBegun == {x.round : x \in {y \in Range(steps) : y.step = "critique"}}

\* C11: when a backend call made in round i has timed out, no exception reaches the
\* caller of run(), no round after i begins, and the run ends by returning the text
\* that was current when round i began.
C11_TimeoutEndsRun ==
    \A n \in 1..Len(gemini_calls) :
        LET g == gemini_calls[n]
        IN  (g.cause = "timeout" /\ g.role \in RoundRoles) =>
                /\ pc \notin {"handler", "raised"}
                /\ \A r \in RoundsBegun : r <= g.round
                /\ Terminated =>
                      /\ pc = "returned"
                      /\ run_log.final_output = TextAtStartOf(g.round)

\* An exception of a class the loop has no clause of its own for.
Unexpected(e) ==
    e.type \notin {"", "TimeoutError", "ValueError", "TemplateNotFoundError"}

\* The unexpected exception with which the critique step or the refine call of the
\* round that is running (round loop_i + 1) has failed, NoExc when there is none.
UnexpectedRoundFailure ==
    IF Unexpected(gather_exc) THEN gather_exc
    ELSE IF calls[0].role = "refiner" /\ calls[0].st = "raised" /\ Unexpected(calls[0].exc)
    THEN calls[0].exc
    ELSE NoExc

\* C14: when the critique step or the refine call of round i fails with an unexpected
\* error, no exception reaches the caller of run(), no round after i begins, and the
\* run ends by returning the text that was current when round i began, with the
\* reason "Error in round i: " followed by the message of the error.
C14_UnexpectedFailureStops ==
    UnexpectedRoundFailure # NoExc =>
        /\ pc \notin {"handler", "raised"}
        /\ \A r \in RoundsBegun : r <= loop_i + 1
        /\ Terminated =>
              /\ pc = "returned"
              /\ run_log.final_output = TextAtStartOf(loop_i + 1)
              /\ run_log.reason_for_stopping =
                     "Error in round " \o ToString(loop_i + 1) \o ": "
                         \o UnexpectedRoundFailure.msg

C14_Witness ==
    /\ pc = "returned"
    /\ calls[0].role = "refiner"
    /\ calls[0].st = "raised"
    /\ loop_i = 1
    /\ run_log.final_output = run_log.refinements[1].text
    /\ run_log.reason_for_stopping =
           "Error in round 2: Model gemini-1.5-flash failed and no distinct fallback is available."

(***************************************************************************)
(* The meta-critique gate                                                  *)
(***************************************************************************)

\* A response reads as the verdict actionable = true: a JSON mapping whose actionable
\* value is the boolean true, or text that is no JSON and holds the marker.
ReadsActionable(text) ==
    \/ text = "{\"actionable\": true}"
    \/ JsonLoads(text).kind = "error" /\ Contains(text, "ACTIONABLE")

\* The meta-critic call of a round was answered by the backend with a response that
\* reads as actionable = true.
MetaAnsweredActionable(round_num) ==
    \E n \in 1..Len(gemini_calls) :
        /\ gemini_calls[n].role = "meta_critic"
        /\ gemini_calls[n].round = round_num
        /\ gemini_calls[n].outcome = "ok"
        /\ ReadsActionable(gemini_calls[n].text)

\* C12: the gate fails closed. A round whose meta-critic was called has a refine step
\* only if the call was answered with a response that reads as actionable = true; in
\* every other case (the call failed, or the response is anything else) the run ends
\* by returning the text that was current in that round, and no later round begins.
C12_GateFailsClosed ==
    \A k \in 1..MaxRounds :
        (Step("meta", k) \in Range(steps) /\ ~MetaAnsweredActionable(k)) =>
            /\ pc # "meta" => Step("refine", k) \notin Range(steps)
            /\ \A r \in RoundsBegun : r <= k
            /\ Terminated =>
                  /\ pc = "returned"
                  /\ run_log.final_output = TextAtStartOf(k)

\* C13: when disable_meta_critic is set, or no meta-critic template is configured,
\* no meta-critic call is made in any round, no verdict is read as not actionable,
\* and every round whose critique has been recorded has gone on to its refine step.
C13_GateSkipped ==
    (cfg.disable_meta_critic \/ DictGet(cfg.roles, "meta_critic_template") \in {None, ""}) =>
        /\ \A x \in Range(steps) : x.step \notin {"meta", "verdict_false"}
        /\ \A s \in Slots : calls[s].role # "meta_critic"
        /\ \A n \in 1..Len(gemini_calls) : gemini_calls[n].role # "meta_critic"
        /\ \A k \in 1..Len(run_log.critiques) : Step("refine", k) \in Range(steps)
        /\ ~StartsWith(run_log.reason_for_stopping, "Non-actionable")

C13_Witness ==
    /\ pc = "returned"
    /\ ~cfg.disable_meta_critic
    /\ DictGet(cfg.roles, "meta_critic_template") = None
    /\ ~cfg.dry_run
    /\ cfg.max_rounds = MaxRounds
    /\ Len(run_log.critiques) = MaxRounds
    /\ Len(run_log.refinements) = MaxRounds

(***************************************************************************)
(* What reaches the caller of run()                                        *)
(***************************************************************************)

\* A configuration error has been raised in the run: a call_model invocation found
\* no model, or _critique found no critic role.
ConfigErrorRaised ==
    \/ \E s \in Slots : calls[s].st = "raised" /\ calls[s].exc.type = "ValueError"
    \/ exc.type = "ValueError"

\* C15: once a configuration error has been raised in a run, the run does not end by
\* returning: it ends by raising an exception to the caller of run().
C15_ConfigErrorSurfaced ==
    ConfigErrorRaised =>
        /\ pc # "returned"
        /\ Terminated => pc = "raised"

\* A model call of the generate, brainstorm, critique or refine phase has failed on
\* the primary model and then on the fallback model.
BothModelsFailed ==
    \E n \in 1..Len(gemini_calls) :
        /\ gemini_calls[n].role \in {"generator", "brainstormer", "critic", "refiner"}
        /\ gemini_calls[n].hop = "fallback"
        /\ gemini_calls[n].outcome = "fail"

\* C16: once a model call of the generate, brainstorm, critique or refine phase has
\* failed on the primary and on the fallback model, the run does not end by
\* returning: it ends by raising an exception to the caller of run().
C16_BackendFailureSurfaced ==
    BothModelsFailed =>
        /\ pc # "returned"
        /\ Terminated => pc = "raised"

(***************************************************************************)
(* The critic roles of a round                                             *)
(***************************************************************************)

\* The role files of the strategy, when a strategy is active.
StrategyRoleFiles(st) ==
    IF st.kind = "list" \/ st.has_roles
    THEN [n \in 1..Len(st.roles) |-> st.roles[n] \o ".txt"]
    ELSE <<>>

\* C17: the critic roles of a round are those of the strategy when a strategy is
\* active; otherwise multi_critic_roles when it is set; otherwise the default critic
\* role file alone. So multi_critic_roles or the default role is used only when no
\* strategy is active, and the default role only when multi_critic_roles is not set.
C17_RolePriority ==
    pc \in {"gather", "meta", "refine"} =>
        /\ StrategyTruthy(cfg.strategy) =>
              roles_to_use = StrategyRoleFiles(cfg.strategy)
        /\ (~StrategyTruthy(cfg.strategy) /\ cfg.multi_critic_roles # <<>>) =>
              roles_to_use = cfg.multi_critic_roles
        /\ (~StrategyTruthy(cfg.strategy) /\ cfg.multi_critic_roles = <<>>) =>
              roles_to_use = <<cfg.default_critic_role_prompt_file>>
        /\ \A j \in 1..Len(roles_to_use) :
              calls[j].st \notin {"idle", "created"} =>
                  \/ calls[j].system_prompt = TemplateText(roles_to_use[j])
                  \/ calls[j].exc.type = "TemplateNotFoundError"

C17_Witness ==
    /\ pc = "refine"
    /\ StrategyTruthy(cfg.strategy)
    /\ cfg.multi_critic_roles # <<>>
    /\ cfg.default_critic_role_prompt_file # None
    /\ roles_to_use # cfg.multi_critic_roles
    /\ roles_to_use # <<>>
    /\ run_log.critiques[1].role_prompt_file_used = roles_to_use

\* The configuration resolves to no critic role at all.
NoCriticRole ==
    IF StrategyTruthy(cfg.strategy) THEN StrategyRoleFiles(cfg.strategy) = <<>>
    ELSE cfg.multi_critic_roles = <<>> /\ cfg.default_critic_role_prompt_file \in {None, ""}

\* C18: when a round begins and the configuration resolves to no critic role, the
\* round records no critique and makes no meta-critique or refine call, and the run
\* ends by raising the configuration error to the caller of run().
C18_EmptyRolesRaise ==
    (RoundsBegun # {} /\ NoCriticRole) =>
        /\ run_log.critiques = <<>>
        /\ \A x \in Range(steps) : x.step \notin {"meta", "refine"}
        /\ pc # "returned"
        /\ Terminated => (pc = "raised" /\ exc.type = "ValueError")

(***************************************************************************)
(* The generate step                                                       *)
(***************************************************************************)

\* The generator model has been called.
GeneratorCalled == Step("generate", 0) \in Range(steps)

\* C19: content the caller supplies, the empty string included, becomes the initial
\* text as it is and no generator call is made; and the initial generation record
\* says "N/A (provided content for review)" for the model exactly when no generator
\* call was made, and names the generator model otherwise.
C19_GenerateStep ==
    /\ cfg.initial_content_for_review # None => ~GeneratorCalled
    /\ run_log.initial_generation # EmptyDict =>
          /\ cfg.initial_content_for_review # None =>
                run_log.initial_generation.text = cfg.initial_content_for_review
          /\ run_log.initial_generation.model_used =
                IF GeneratorCalled THEN cfg.generator_model
                ELSE "N/A (provided content for review)"

(***************************************************************************)
(* The log of a run that raises                                            *)
(***************************************************************************)

\* C20: when run() has raised an exception to its caller, the log file holds an
\* entry of the run, and every entry it holds has an empty final output and a reason
\* for stopping that is not empty and contains the message of the exception.
C20_RaisedRunIsLogged ==
    pc = "raised" =>
        /\ exc # NoExc
        /\ exc.msg # ""
        /\ Len(log_file) >= 1
        /\ \A n \in 1..Len(log_file) :
              /\ log_file[n].final_output = ""
              /\ log_file[n].reason_for_stopping # ""
              /\ Contains(log_file[n].reason_for_stopping, exc.msg)

C20_Witness ==
    /\ pc = "raised"
    /\ exc.type = "ModelAPIError"
    /\ Len(log_file) = 1
    /\ run_log.initial_generation = EmptyDict
    /\ log_file[1].reason_for_stopping =
           "[2025-01-01T00:00:00] Error during critique/refine loop: "
               \o "Model gemini-1.5-flash failed and no distinct fallback is available."

(***************************************************************************)
(* The reason for stopping                                                 *)
(***************************************************************************)

\* C21: in a run on a fresh loop, the reason for stopping, once it is not empty, is
\* never changed again (so the max-rounds reason never replaces an earlier one); it
\* is set only by a step that ends the rounds; and a run that has ended has one.
C21_ReasonSetOnce ==
    [][/\ run_log.reason_for_stopping # "" =>
              run_log'.reason_for_stopping = run_log.reason_for_stopping
       /\ run_log'.reason_for_stopping # "" => pc' \in {"after_loop", "returned", "raised"}
       /\ pc' \in {"returned", "raised"} => run_log'.reason_for_stopping # ""]_vars

C21_Witness ==
    /\ pc = "returned"
    /\ cfg.max_rounds = MaxRounds
    /\ loop_i < cfg.max_rounds
    /\ Len(log_file) = 1
    /\ log_file[1].reason_for_stopping = "Non-actionable critique received in round 1."

(***************************************************************************)
(* The text handed from round to round                                     *)
(***************************************************************************)

\* C22: with the meta-critique gate disabled and nothing failing, the refine call of
\* round i is given the text round i - 1's refine call returned (the text the loop
\* started with in round 1) together with the whole critique text of round i; the
\* run returns the text of the last round's refine call, with one critique and one
\* refinement record per round, in the order of the rounds, and the max-rounds reason.
C22_RefineChain ==
    (cfg.disable_meta_critic /\ NoFailure) =>
        /\ pc = "refine" =>
              /\ calls[0].role = "refiner"
              /\ Len(run_log.critiques) = loop_i + 1
              /\ Len(run_log.refinements) = loop_i
              /\ run_log.critiques[loop_i + 1].text = critique_text
              /\ calls[0].prompt =
                     "Original text:\n" \o TextAtStartOf(loop_i + 1)
                         \o "\n\nCritique:\n" \o run_log.critiques[loop_i + 1].text
                         \o "\n\nRefine the original text based on the critique."
        /\ pc = "returned" =>
              /\ run_log.final_output = TextAtStartOf(cfg.max_rounds + 1)
              /\ [r \in 1..Len(run_log.critiques) |-> run_log.critiques[r].round]
                     = [r \in 1..cfg.max_rounds |-> r]
              /\ [r \in 1..Len(run_log.refinements) |-> run_log.refinements[r].round]
                     = [r \in 1..cfg.max_rounds |-> r]
              /\ run_log.reason_for_stopping =
                     "Max rounds (" \o ToString(cfg.max_rounds) \o ") reached."

C22_Witness ==
    /\ pc = "refine"
    /\ cfg.disable_meta_critic
    /\ NoFailure
    /\ ~cfg.dry_run
    /\ cfg.max_rounds = MaxRounds
    /\ loop_i = MaxRounds - 1
    /\ loop_i >= 1
    /\ calls[0].st = "returned"
    /\ Contains(calls[0].prompt, run_log.refinements[loop_i].text)
    /\ run_log.initial_generation.text = "my draft"

(***************************************************************************)
(* Redaction                                                               *)
(***************************************************************************)

\* A pattern matches somewhere in a text, whatever the case.
MatchesIn(text, pattern) ==
    \E n \in 1..(Len(text) - Len(pattern) + 1) :
        Lower(SubSeq(text, n, n + Len(pattern) - 1)) = Lower(pattern)

\* No rule matches in a string of the structure that is not the value of a
\* sensitive key.
RECURSIVE NoMatchLeft(_, _, _)
NoMatchLeft(value, keys, rules) ==
    CASE value.kind = "dict" ->
            \A key \in DOMAIN value.val :
                \/ \E n \in 1..Len(keys) : keys[n] = key
                \/ NoMatchLeft(value.val[key], keys, rules)
      [] value.kind = "list" ->
            \A n \in 1..Len(value.val) : NoMatchLeft(value.val[n], keys, rules)
      [] value.kind = "str" ->
            \A n \in 1..Len(rules) : ~MatchesIn(value.val, rules[n][1])
      [] OTHER -> TRUE

\* C23, as the specification states it: redacting what a redaction returned, with
\* the same keys and rules, returns an equal structure.
C23_Idempotent ==
    \A n \in 2..Len(redacted) : redacted[n] = redacted[n - 1]

\* C23, amended: redacting what a redaction returned, with the same keys and rules,
\* returns an equal structure whenever there are no rules, or no rule matches in a
\* string the first redaction left outside the values of the sensitive keys.
C23_IdempotentWhenSettled ==
    \A n \in 2..Len(redacted) :
        NoMatchLeft(redacted[n - 1], logger.keys_to_redact, logger.redaction_patterns)
            => redacted[n] = redacted[n - 1]

C23_Witness ==
    /\ Len(redacted) >= 2
    /\ logger.redaction_patterns # <<>>
    /\ logger.keys_to_redact # <<>>
    /\ NoMatchLeft(redacted[1], logger.keys_to_redact, logger.redaction_patterns)
    /\ ~NoMatchLeft(before, <<>>, logger.redaction_patterns)
    /\ before.kind = "dict"
    /\ "api_key" \in DOMAIN before.val
    /\ redacted[1].val["api_key"] = Str("[REDACTED_API_KEY]")
    /\ redacted[2] = redacted[1]

\* C24: after _redact_dict_recursive has returned, and after log_run has returned
\* (with redaction on or off), the structure the caller handed over is equal, at
\* every depth, to what it was when the call was made.
C24_InputNotMutated ==
    (redacted # <<>> \/ log_file # <<>>) => caller_entry = before

C24_Witness ==
    /\ logger.redact
    /\ Len(log_file) = 1
    /\ redacted # <<>>
    /\ caller_entry.kind = "dict"
    /\ "inner" \in DOMAIN caller_entry.val
    /\ caller_entry.val["inner"].kind = "list"
    /\ log_file[1] # caller_entry
    /\ redacted[1] = log_file[1]

(***************************************************************************)
(* The configuration of a backend call                                     *)
(***************************************************************************)

\* C25: the configuration every backend call of call_model is given holds exactly
\* the keys of the default generation parameters, of the model section and of the
\* per-call configuration, each with the value of the last of these three layers
\* that holds the key.
C25_MergeOrder ==
    pc = "router" =>
        \A n \in 1..Len(gemini_calls) :
            LET got == gemini_calls[n].config
                generation == main_config.generation
                models == main_config.models
                override == calls[gemini_calls[n].slot].config
            IN  /\ DOMAIN got = (DOMAIN generation) \cup (DOMAIN models) \cup (DOMAIN override)
                /\ \A key \in DOMAIN got :
                      got[key] = IF key \in DOMAIN override THEN override[key]
                                 ELSE IF key \in DOMAIN models THEN models[key]
                                 ELSE generation[key]

C25_Witness ==
    /\ pc = "router"
    /\ Len(gemini_calls) = 2
    /\ gemini_calls[2].sent
    /\ "default_model" \in DOMAIN main_config.generation
    /\ "default_model" \in DOMAIN main_config.models
    /\ "default_model" \in DOMAIN calls[0].config
    /\ gemini_calls[2].config["default_model"] = "gemini-call"
    /\ gemini_calls[2].config["temperature"] = "0.2"
    /\ gemini_calls[2].config["fallback_model"] = "gemini-fallback"
    /\ gemini_calls[1].config = gemini_calls[2].config

(***************************************************************************)
(* The fallback policy of call_model                                       *)
(***************************************************************************)

\* A fallback model is configured for the call and it is not the model that the
\* primary call was made to.
DistinctFallbackConfigured(c) ==
    /\ DictGet(c.effective_config, "fallback_model") \notin {None, ""}
    /\ DictGet(c.effective_config, "fallback_model") # c.model_to_use

\* The primary call of the invocation in a slot has failed.
PrimaryHasFailed(slot) ==
    Len(AttemptsOf(slot)) >= 1 /\ AttemptsOf(slot)[1].outcome = "fail"

\* C6: when the primary call fails and a fallback model other than the failed model
\* is configured, exactly one fallback call is made, to the fallback model, with the
\* prompt, system prompt and effective configuration of the primary call; when it
\* succeeds call_model returns its text and raises nothing.
C6_FallbackOnceSameCall ==
    \A s \in Slots :
        (PrimaryHasFailed(s) /\ DistinctFallbackConfigured(calls[s])) =>
            LET a == AttemptsOf(s)
            IN  /\ Len(a) = 2
                /\ a[1].hop = "primary"
                /\ a[2].hop = "fallback"
                /\ a[2].model = DictGet(calls[s].effective_config, "fallback_model")
                /\ a[2].model # a[1].model
                /\ a[2].prompt = a[1].prompt
                /\ a[2].system_prompt = a[1].system_prompt
                /\ a[2].config = a[1].config
                /\ a[2].outcome = "ok" =>
                      /\ calls[s].st = "returned"
                      /\ calls[s].result = a[2].text
                      /\ calls[s].exc = NoExc

C6_Witness ==
    /\ pc = "router"
    /\ PrimaryHasFailed(0)
    /\ Len(AttemptsOf(0)) = 2
    /\ AttemptsOf(0)[2].outcome = "ok"
    /\ calls[0].st = "returned"
    /\ calls[0].system_prompt # None

\* C7: when the primary call fails and no fallback model is configured, or the
\* configured one is the model that failed, call_model raises a backend-call error
\* and has made one call_gemini attempt only.
C7_NoDistinctFallbackRaises ==
    \A s \in Slots :
        (PrimaryHasFailed(s) /\ ~DistinctFallbackConfigured(calls[s])) =>
            /\ calls[s].st = "raised"
            /\ calls[s].exc.type = "ModelAPIError"
            /\ Len(AttemptsOf(s)) = 1

C7_Witness ==
    /\ pc = "router"
    /\ PrimaryHasFailed(0)
    /\ FallbackModel(calls[0]) = calls[0].model_to_use
    /\ calls[0].st = "raised"

\* C8: one invocation of call_model makes at most two call_gemini attempts, a
\* primary one and then at most one fallback one; when both have failed it has
\* raised a backend-call error (and, the bound holding in every state, it never
\* calls a model again).
C8_AtMostTwoAttempts ==
    \A s \in Slots :
        LET a == AttemptsOf(s)
        IN  /\ Len(a) <= 2
            /\ Len(a) >= 1 => a[1].hop = "primary"
            /\ Len(a) = 2 => a[2].hop = "fallback" /\ a[1].outcome = "fail"
            /\ (Len(a) = 2 /\ a[2].outcome = "fail") =>
                  /\ calls[s].st = "raised"
                  /\ calls[s].exc.type = "ModelAPIError"

C8_Witness ==
    /\ pc = "router"
    /\ Len(AttemptsOf(0)) = 2
    /\ AttemptsOf(0)[2].outcome = "fail"
    /\ AttemptsOf(0)[2].sent
    /\ calls[0].st = "raised"

(***************************************************************************)
(* The resolution of the effective model                                   *)
(***************************************************************************)

\* The model the chain override, role's model, default model yields, each link
\* used when the one before it yields no model.
ChainModel(c) ==
    LET role_name == IF ~Falsy(c.role) THEN Replace(c.role, ".txt", "") ELSE ""
        role_model == IF role_name # "" /\ role_name \in DOMAIN main_config.roles
                      THEN DictGet(main_config.roles[role_name], "model")
                      ELSE None
    IN  IF ~Falsy(c.model_name) THEN c.model_name
        ELSE IF ~Falsy(role_model) THEN role_model
        ELSE DictGet(c.effective_config, "default_model")

\* A slot holds an invocation that has entered call_model.
Entered(s) == calls[s].st \in {"primary", "fallback", "returned", "raised"}
                 /\ calls[s].exc.type # "TemplateNotFoundError"

(***************************************************************************)
(* Dry runs                                                                *)
(***************************************************************************)

\* C9 as the specification states it: call_model with dry_run set makes no call_gemini
\* attempt and returns the marker of the resolved model, whatever the role and the
\* configuration, and a run with dry_run set makes no call_gemini attempt.
C9_DryRunAlwaysMarker ==
    /\ cfg.dry_run => gemini_calls = <<>>
    /\ \A s \in Slots :
          (Entered(s) /\ calls[s].dry_run) =>
              /\ AttemptsOf(s) = <<>>
              /\ calls[s].st = "returned"
              /\ calls[s].result = DryRunMarker(calls[s].model_to_use)

\* C9, amended: call_model with dry_run set makes no call_gemini attempt; it returns
\* the marker of the resolved model when the resolution yields a model and raises the
\* configuration error when it yields none; a run with dry_run set makes no
\* call_gemini attempt.
C9_DryRunNoBackend ==
    /\ cfg.dry_run => gemini_calls = <<>>
    /\ \A s \in Slots :
          (Entered(s) /\ calls[s].dry_run) =>
              /\ AttemptsOf(s) = <<>>
              /\ IF Falsy(calls[s].model_to_use)
                 THEN /\ calls[s].st = "raised"
                      /\ calls[s].exc.type = "ValueError"
                 ELSE /\ calls[s].st = "returned"
                      /\ calls[s].result = DryRunMarker(calls[s].model_to_use)

C9_Witness ==
    /\ pc = "returned"
    /\ cfg.dry_run
    /\ Len(run_log.critiques) = MaxRounds
    /\ Len(run_log.refinements) = MaxRounds
    /\ run_log.final_output = DryRunMarker(cfg.refiner_model)
    /\ gemini_calls = <<>>

\* C10: call_model uses the override if given, otherwise the model of the role if
\* the roles section has one for it, otherwise default_model; it raises the
\* configuration error, before any call_gemini attempt, exactly when none of the
\* three yields a model.
C10_ResolutionChain ==
    \A s \in Slots :
        Entered(s) =>
            IF Falsy(ChainModel(calls[s]))
            THEN /\ calls[s].st = "raised"
                 /\ calls[s].exc.type = "ValueError"
                 /\ AttemptsOf(s) = <<>>
            ELSE /\ calls[s].model_to_use = ChainModel(calls[s])
                 /\ calls[s].exc.type # "ValueError"

(***************************************************************************)
(* The router before initialize()                                          *)
(***************************************************************************)

\* C26 as the specification states it: a call_model invocation made while the router
\* is not initialized has raised, whatever its arguments.
C26_UninitializedAlwaysFails ==
    \A s \in Slots :
        (~is_initialized /\ Entered(s)) => calls[s].st = "raised"

\* C26, amended: a call_model invocation made while the router is not initialized
\* raises the configuration error when no model resolves; returns the dry-run
\* marker when dry_run is set and the mock marker when the model is a mock model;
\* and in every other case raises a backend-call error, with no request of its
\* call_gemini attempts sent and no text returned.
C26_UninitializedBackendFails ==
    \A s \in Slots :
        (~is_initialized /\ Entered(s)) =>
            LET c == calls[s]
            IN  /\ \A n \in 1..Len(gemini_calls) :
                      gemini_calls[n].slot = s =>
                          ~gemini_calls[n].sent /\ gemini_calls[n].outcome = "fail"
                /\ IF c.model_to_use \in {"None", ""}
                   THEN c.st = "raised" /\ c.exc.type = "ValueError"
                   ELSE IF c.dry_run
                   THEN /\ c.st = "returned"
                        /\ c.result = "DRY_RUN_RESPONSE: This is a mocked response for model "
                                          \o c.model_to_use \o "."
                   ELSE IF SubSeq(c.model_to_use, 1, 4) = "mock"
                   THEN /\ c.st = "returned"
                        /\ c.result = "MOCK_RESPONSE: This is a mocked response for model "
                                          \o c.model_to_use \o "."
                   ELSE /\ c.st = "raised"
                        /\ c.exc.type = "ModelAPIError"
                        /\ \E n \in 1..Len(gemini_calls) : gemini_calls[n].slot = s

C26_Witness ==
    /\ pc = "router"
    /\ ~is_initialized
    /\ calls[0].st = "raised"
    /\ calls[0].exc.type = "ModelAPIError"
    /\ Len(gemini_calls) = 2
    /\ ~gemini_calls[1].sent
    /\ ~gemini_calls[2].sent
    /\ gemini_calls[2].hop = "fallback"

(***************************************************************************)
(* Strategy names that do not resolve                                      *)
(***************************************************************************)

\* The constructor was given a strategy name and has loaded no strategy for it.
StrategyUnresolved == cfg.strategy_name \notin {"None", ""} /\ cfg.strategy.kind = "none"

\* C27: when the strategy name given to the loop resolves to no strategy and no
\* backend call fails, no critic call is made for a role of the run configuration,
\* the run does not return, and it ends by raising a configuration error.
C27_UnresolvedStrategyFails ==
    (StrategyUnresolved /\ \A n \in 1..Len(gemini_calls) : gemini_calls[n].outcome # "fail") =>
        /\ \A n \in 1..Len(gemini_calls) : gemini_calls[n].role # "critic"
        /\ pc # "returned"
        /\ pc = "raised" => exc.type = "ValueError"

(***************************************************************************)
(* The brainstorm stage                                                    *)
(***************************************************************************)

IsBrainstormStep(x) == x.step = "brainstorm"
IsBrainstormerCall(g) == g.role = "brainstormer"
BrainstormSteps == SelectSeq(steps, IsBrainstormStep)
BrainstormerCalls == SelectSeq(gemini_calls, IsBrainstormerCall)

\* The loaded strategy lists the role "brainstormer".
ListsBrainstormer ==
    \E n \in 1..Len(cfg.strategy.roles) : cfg.strategy.roles[n] = "brainstormer"

\* The number of brainstormer calls the stage is to make.
BrainstormCallsDue ==
    IF cfg.strategy.kind = "list" /\ ListsBrainstormer THEN 1
    ELSE IF cfg.strategy.kind = "dict" /\ ListsBrainstormer
    THEN IF cfg.strategy.max_rounds = 0 - 1 THEN 1 ELSE cfg.strategy.max_rounds
    ELSE 0

\* C28: when the rounds have begun, the brainstorm stage has made one call for a
\* list strategy that lists "brainstormer", the strategy's max_rounds calls (one when
\* it holds none) for a dict strategy that lists it, and none in every other case,
\* in which the text that enters round 1 is the initial text; every call went to the
\* generator model with the text the call before it returned (the initial text for
\* the first), and the text the last call returned is the text that enters round 1.
C28_BrainstormCalls ==
    pc \in {"round", "gather", "meta", "refine", "after_loop", "returned"} =>
        /\ Len(BrainstormSteps) = BrainstormCallsDue
        /\ BrainstormCallsDue = 0 =>
              /\ BrainstormerCalls = <<>>
              /\ brainstormed_text = run_log.initial_generation.text
        /\ (~cfg.dry_run /\ \A n \in 1..Len(BrainstormerCalls) :
                                BrainstormerCalls[n].outcome = "ok") =>
              /\ Len(BrainstormerCalls) = BrainstormCallsDue
              /\ \A n \in 1..Len(BrainstormerCalls) :
                    /\ BrainstormerCalls[n].model = cfg.generator_model
                    /\ BrainstormerCalls[n].prompt =
                           IF n = 1 THEN run_log.initial_generation.text
                           ELSE BrainstormerCalls[n - 1].text
              /\ BrainstormCallsDue > 0 =>
                    brainstormed_text = BrainstormerCalls[BrainstormCallsDue].text

C28_Witness ==
    /\ pc = "returned"
    /\ ~cfg.dry_run
    /\ cfg.strategy.kind = "dict"
    /\ cfg.strategy.max_rounds = 2
    /\ Len(BrainstormerCalls) = 2
    /\ BrainstormerCalls[1].outcome = "ok"
    /\ BrainstormerCalls[2].outcome = "ok"
    /\ BrainstormerCalls[2].prompt = BrainstormerCalls[1].text
    /\ brainstormed_text = BrainstormerCalls[2].text
    /\ \E n \in 1..Len(gemini_calls) :
          gemini_calls[n].role = "critic" /\ gemini_calls[n].prompt = brainstormed_text

(***************************************************************************)
(* Timeouts and the verdict of the meta-critic                             *)
(***************************************************************************)

\* C29: when a backend call made in round i (by a critic, the meta-critic or the
\* refiner) has timed out and no fallback model is configured, the run that has
\* ended has recorded the timeout reason of round i, and not the non-actionable
\* reason.
C29_TimeoutBeforeNonActionable ==
    \A n \in 1..Len(gemini_calls) :
        LET g == gemini_calls[n]
        IN  (/\ g.cause = "timeout"
             /\ g.role \in {"critic", "meta_critic", "refiner"}
             /\ "fallback_model" \notin DOMAIN main_config.models
             /\ pc \in {"returned", "raised"}) =>
                /\ run_log.reason_for_stopping = "Timeout in round " \o ToString(g.round)
                /\ run_log.reason_for_stopping #
                       "Non-actionable critique received in round " \o ToString(g.round) \o "."

(***************************************************************************)
(* The run log and the log file                                            *)
(***************************************************************************)

\* C30: the log file is written only by the step that ends the run, every entry it
\* holds has a reason for stopping that is not empty, and once it holds an entry no
\* step of the loop begins and no call_model invocation is entered (the calls that
\* are in flight may still move).
C30_NoFlushMidRun ==
    [][/\ log_file' # log_file => (pc \notin {"returned", "raised"} /\ pc' \in {"returned", "raised"})
       /\ \A n \in 1..Len(log_file') : log_file'[n].reason_for_stopping # ""
       /\ log_file # <<>> =>
             /\ steps' = steps
             /\ pc' = pc
             /\ \A s \in Slots :
                   calls[s].st \in {"idle", "created", "returned", "raised"} =>
                       calls'[s] = calls[s]]_vars

C30_Witness ==
    /\ pc = "returned"
    /\ Len(log_file) = 1
    /\ log_file[1] = run_log
    /\ Len(roles_to_use) >= 2
    /\ calls[1].st = "raised"
    /\ calls[2].st = "fallback"
    /\ \E n \in 1..Len(steps) : steps[n].step = "critique"

(***************************************************************************)
(* The run log at the start of a run                                       *)
(***************************************************************************)

\* C31: whenever run() is entered, on a new loop or on one that has run before, the
\* run log holds no critique record, no refinement record and no reason for stopping.
C31_RunStartsWithEmptyLog ==
    pc = "start" =>
        /\ run_log.critiques = <<>>
        /\ run_log.refinements = <<>>
        /\ run_log.reason_for_stopping = ""

(***************************************************************************)
(* The fan-out and what the loop does meanwhile                            *)
(***************************************************************************)

\* A critic call of the round is in flight.
CriticInFlight == \E j \in 1..Len(roles_to_use) : calls[j].st \in {"primary", "fallback"}

\* C32 as the specification states it: while a critic call of the round is in
\* flight, the loop is waiting for the fan-out: it has entered no meta-critique and
\* no refine of the round, assigned no reason for stopping and written no log.
C32_OutcomeAfterAllSettled ==
    CriticInFlight =>
        /\ pc = "gather"
        /\ run_log.reason_for_stopping = ""
        /\ log_file = <<>>

\* C32, amended: the loop leaves the fan-out only when every critic task of the
\* round has been started; it enters the meta-critique and the refine of the round
\* only when every critic call has returned; and while a critic call is in flight
\* it does anything else than wait only after a sibling call of the round has
\* failed, whose failure it then handles.
C32_SuccessAfterAllSettled ==
    /\ pc # "gather" => \A j \in 1..Len(roles_to_use) : calls[j].st # "created"
    /\ pc \in {"meta", "refine"} =>
          \A j \in 1..Len(roles_to_use) : calls[j].st = "returned"
    /\ (CriticInFlight /\ pc # "gather") =>
          /\ gather_exc # NoExc
          /\ \E j \in 1..Len(roles_to_use) : calls[j].st = "raised"
          /\ pc \in {"handler", "after_loop", "returned", "raised"}
          /\ Len(run_log.critiques) = loop_i
          /\ Len(run_log.refinements) = loop_i

C32_Witness ==
    /\ pc = "returned"
    /\ Len(roles_to_use) >= 2
    /\ calls[1].st = "raised"
    /\ calls[2].st = "primary"
    /\ Len(log_file) = 1
    /\ SubSeq(run_log.reason_for_stopping, 1, 16) = "Error in round 1"

(***************************************************************************)
(* The records of the rounds in a run that ends early                      *)
(***************************************************************************)

\* One sequence begins with the other.
IsPrefix(short, long) ==
    Len(short) <= Len(long) /\ SubSeq(long, 1, Len(short)) = short

\* C33: no step of a run removes or changes a critique or refinement record the run
\* log holds, the steps that end the run included, and every entry written to the log
\* file holds exactly the critique and refinement records the run log held when the
\* run ended, in their order.
C33_PartialLogKept ==
    [][/\ IsPrefix(run_log.critiques, run_log'.critiques)
       /\ IsPrefix(run_log.refinements, run_log'.refinements)
       /\ \A n \in (Len(log_file) + 1)..Len(log_file') :
             /\ log_file'[n].critiques = run_log.critiques
             /\ log_file'[n].refinements = run_log.refinements]_vars

C33_Witness ==
    /\ pc = "returned"
    /\ SubSeq(run_log.reason_for_stopping, 1, 16) = "Error in round 2"
    /\ Len(log_file) = 1
    /\ Len(log_file[1].critiques) = 2
    /\ Len(log_file[1].refinements) = 1
    /\ log_file[1].refinements[1].round = 1
    /\ log_file[1].critiques[2].round = 2

(***************************************************************************)
(* C34: stop_threshold is inert and the gate is single-shot                 *)
(***************************************************************************)

\* What a call_gemini invocation asked of the backend.
Request(g) ==
    [hop |-> g.hop, role |-> g.role, round |-> g.round, model |-> g.model,
     prompt |-> g.prompt, system_prompt |-> g.system_prompt, config |-> g.config]

\* C34: a run next to the run of a loop that differs in stop_threshold only and got
\* the same backend answers makes the same backend calls in the same order and
\* ends the same way with the same final_output and reason_for_stopping; and in
\* every run, whatever the threshold, a verdict that is not actionable is the last
\* step of the loop.
C34_ThresholdInert ==
    /\ other_run.ended =>
          /\ cfg.stop_threshold # other_run.stop_threshold
          /\ Len(gemini_calls) <= Len(other_run.gemini_calls)
          /\ \A n \in 1..Len(gemini_calls) :
                Request(gemini_calls[n]) = Request(other_run.gemini_calls[n])
          /\ pc \in {"returned", "raised"} =>
                /\ pc = other_run.outcome
                /\ Len(gemini_calls) = Len(other_run.gemini_calls)
                /\ gemini_calls = other_run.gemini_calls
                /\ run_log.final_output = other_run.final_output
                /\ run_log.reason_for_stopping = other_run.reason_for_stopping
    /\ \A n \in 1..Len(steps) :
          steps[n].step = "verdict_false" =>
              /\ n = Len(steps)
              /\ pc \in {"after_loop", "returned"}
              /\ Len(run_log.critiques) = steps[n].round
              /\ Len(run_log.refinements) = steps[n].round - 1

C34_Witness ==
    /\ other_run.ended
    /\ other_run.stop_threshold = 50
    /\ cfg.stop_threshold = 2
    /\ pc = "returned"
    /\ steps[Len(steps)] = Step("verdict_false", 2)
    /\ Len(gemini_calls) > 0
    /\ \E n \in 1..Len(gemini_calls) : gemini_calls[n].outcome = "fail"

(***************************************************************************)
(* C35: what the redactor does to mappings, at every depth                  *)
(***************************************************************************)

\* The placeholders of the sensitive keys of KeyLists, written out.
Placeholders == ("api_key" :> "[REDACTED_API_KEY]") @@ ("text" :> "[REDACTED_TEXT]")

\* result is what the claim says of the redaction of data: in a mapping the value
\* of a sensitive key is its placeholder and nothing else, the value of any other
\* key is redacted in turn; the items of a list are redacted in turn; a string is
\* the string through the rules; anything else is itself.
RECURSIVE RedactedAsSpecified(_, _, _, _)
RedactedAsSpecified(data, result, keys, rules) ==
    CASE data.kind = "dict" ->
            /\ result.kind = "dict"
            /\ DOMAIN result.val = DOMAIN data.val
            /\ \A key \in DOMAIN data.val :
                  IF \E n \in 1..Len(keys) : keys[n] = key
                  THEN result.val[key] = Str(Placeholders[key])
                  ELSE RedactedAsSpecified(data.val[key], result.val[key], keys, rules)
      [] data.kind = "list" ->
            /\ result.kind = "list"
            /\ Len(result.val) = Len(data.val)
            /\ \A n \in 1..Len(data.val) :
                  RedactedAsSpecified(data.val[n], result.val[n], keys, rules)
      [] data.kind = "str" -> result = Str(ApplyPatterns(data.val, rules))
      [] OTHER -> result = data

\* C35: what a call of the redactor returns is its argument with, in every mapping
\* at every depth, the value of each sensitive key replaced by the placeholder
\* "[REDACTED_<KEY IN UPPER CASE>]" and nothing of that value kept, the value of
\* every other key redacted recursively, and the leaves that are no string, no
\* mapping and no list as they were.
C35_KeysMaskedAtEveryDepth ==
    \A n \in 1..Len(redacted) :
        RedactedAsSpecified(IF n = 1 THEN before ELSE redacted[n - 1], redacted[n],
                            logger.keys_to_redact, logger.redaction_patterns)

C35_Witness ==
    /\ Len(redacted) = 1
    /\ logger.keys_to_redact = <<"api_key">>
    /\ before = Nest(Dict(("api_key" :> Dict("id" :> Str("sk-123"))) @@ ("n" :> Other("1"))),
                     MaxDepth, "dict")
    /\ redacted[1] = Nest(Dict(("api_key" :> Str("[REDACTED_API_KEY]")) @@ ("n" :> Other("1"))),
                          MaxDepth, "dict")

(***************************************************************************)
(* C36: one log file path per loop instance                                 *)
(***************************************************************************)

\* C36: the loops of reviews that run in one process have log file paths of their
\* own, and every run log file holds the line of one run only.
C36_OwnLogFilePath ==
    /\ \A f, g \in DOMAIN reviews :
          (f # g /\ reviews[f].st # "created" /\ reviews[g].st # "created")
              => reviews[f].log_file_path # reviews[g].log_file_path
    /\ \A path \in DOMAIN log_dir :
          \A m, n \in 1..Len(log_dir[path]) :
              log_dir[path][m].review = log_dir[path][n].review

(***************************************************************************)
(* C37: the shape of the run log during a run                               *)
(***************************************************************************)

\* The records of a list carry their own place as round number.
RoundsInOrder(records) == \A j \in 1..Len(records) : records[j].round = j

\* The lists of a run log are within the bounds of the rounds and numbered in order.
WithinRounds(log, c) ==
    /\ Len(log.refinements) <= Len(log.critiques)
    /\ Len(log.critiques) <= c.max_rounds
    /\ Len(log.critiques) - Len(log.refinements) <= 1
    /\ RoundsInOrder(log.critiques)
    /\ RoundsInOrder(log.refinements)

\* C37: during a run on a fresh loop (whose lists begin empty) every step leaves at
\* most max_rounds critique records, as many refinement records or one fewer, the
\* j-th record of either list carrying round j, and only appends to the lists.
C37_RunLogShape ==
    [][/\ WithinRounds(run_log, cfg)
       /\ WithinRounds(run_log', cfg')
       /\ Len(run_log'.critiques) >= Len(run_log.critiques)
       /\ Len(run_log'.refinements) >= Len(run_log.refinements)
       /\ \A j \in 1..Len(run_log.critiques) :
             run_log'.critiques[j] = run_log.critiques[j]
       /\ \A j \in 1..Len(run_log.refinements) :
             run_log'.refinements[j] = run_log.refinements[j]]_vars

C37_Witness ==
    /\ cfg.max_rounds = MaxRounds
    /\ Len(run_log.critiques) = MaxRounds
    /\ Len(run_log.refinements) = MaxRounds - 1
    /\ pc = "refine"
    /\ run_log.critiques[MaxRounds].round = MaxRounds

(***************************************************************************)
(* C38: the final output of a run that returns                              *)
(***************************************************************************)

IsAnswered(g) == g.outcome = "ok"
AnsweredBrainstorms == SelectSeq(BrainstormerCalls, IsAnswered)

\* The text that enters round 1: what the last brainstormer call returned (the
\* backend's answer, or the marker of a dry run), or the text of the initial
\* generation when no brainstormer call was made.
EnteredRoundOne ==
    IF BrainstormSteps = <<>> THEN run_log.initial_generation.text
    ELSE IF AnsweredBrainstorms # <<>>
         THEN AnsweredBrainstorms[Len(AnsweredBrainstorms)].text
         ELSE DryRunMarker(cfg.generator_model)

\* C38: when run() has returned, final_output is the text of the last refinement
\* record if there is one and the text that entered round 1 otherwise, and it is the
\* final_output of the line the run wrote to the log file.
C38_FinalOutput ==
    pc = "returned" =>
        /\ run_log.final_output =
              IF run_log.refinements # <<>>
              THEN run_log.refinements[Len(run_log.refinements)].text
              ELSE EnteredRoundOne
        /\ log_file # <<>>
        /\ log_file[Len(log_file)].final_output = run_log.final_output

C38_Witness ==
    /\ pc = "returned"
    /\ Len(run_log.refinements) = 1
    /\ Len(run_log.critiques) = 2
    /\ run_log.final_output = run_log.refinements[1].text
    /\ run_log.final_output # ""

(***************************************************************************)
(* C39: a run ends                                                          *)
(***************************************************************************)

IsCritiqueStep(x) == x.step = "critique"
CritiqueSteps == SelectSeq(steps, IsCritiqueStep)

\* C39: when every backend invocation returns or fails in the end, run() ends by
\* returning or raising, with a line written to the log, having entered no round
\* twice: the rounds it entered are 1, 2, ... in order, at most max_rounds of them.
C39_RunEnds ==
    <>(/\ pc \in {"returned", "raised"}
       /\ log_file # <<>>
       /\ Len(CritiqueSteps) <= cfg.max_rounds
       /\ \A n \in 1..Len(CritiqueSteps) : CritiqueSteps[n].round = n)

C39_Witness ==
    /\ pc = "returned"
    /\ log_file # <<>>
    /\ cfg.max_rounds = MaxRounds
    /\ Len(CritiqueSteps) = MaxRounds
    /\ CritiqueSteps[MaxRounds].round = MaxRounds
    /\ \E n \in 1..Len(gemini_calls) : gemini_calls[n].outcome = "fail"

(***************************************************************************)
(* C40: the gate in a dry run                                               *)
(***************************************************************************)

\* The meta-critic call is answered by a marker, not by the backend: a dry run, or
\* a meta-critic model whose name begins with "mock"; the gate is enabled with a
\* template, and there is a round to run.
MarkerGate ==
    /\ cfg.dry_run \/ cfg.meta_critic_model = "mock-meta"
    /\ ~cfg.disable_meta_critic
    /\ "meta_critic_template" \in DOMAIN cfg.roles
    /\ cfg.max_rounds >= 1

StoppedInRoundOne ==
    /\ Len(run_log.critiques) = 1
    /\ run_log.refinements = <<>>
    /\ run_log.reason_for_stopping = "Non-actionable critique received in round 1."

\* C40 as stated: every run with a marker for a meta-critic ends with one critique
\* record, no refinement record and the non-actionable reason of round 1.
C40_DryRunStopsInRoundOne ==
    (MarkerGate /\ pc \in {"returned", "raised"}) => StoppedInRoundOne

\* C40, amended: with a marker for a meta-critic no refinement is ever recorded and
\* no second critique, and a run in which the critique of round 1 was recorded
\* returns with one critique record, no refinement record and the reason
\* "Non-actionable critique received in round 1.".
C40_DryRunStopsAfterCritique ==
    MarkerGate =>
        /\ run_log.refinements = <<>>
        /\ Len(run_log.critiques) <= 1
        /\ (pc \in {"returned", "raised"} /\ run_log.critiques # <<>>) =>
              (pc = "returned" /\ StoppedInRoundOne)

C40_Witness ==
    /\ MarkerGate
    /\ cfg.dry_run
    /\ cfg.max_rounds = MaxRounds
    /\ pc = "returned"
    /\ StoppedInRoundOne
    /\ calls[0].role = "meta_critic"
    /\ calls[0].result = DryRunMarker(calls[0].model_to_use)

====
